---- MODULE Spec2Model ----
(***************************************************************************)
(* Model of the reasoning pipeline of planning_agent.intelligence:         *)
(*   - PlanningPlanner.create_plan            (planner.py)                 *)
(*   - PlanningOrchestrator.process, _execute_plan, _execute_step          *)
(*                                             (orchestrator.py)           *)
(*   - the part of ContextMemory the orchestrator reads and writes         *)
(*                                             (context_memory.py)         *)
(* Python dicts are modelled as sequences of <<key, value>> pairs with     *)
(* distinct keys, in insertion order, as CPython keeps them.               *)
(***************************************************************************)
EXTENDS Integers, Sequences, FiniteSets, TLC

(***************************************************************************)
(* Bounds of the model.                                                    *)
(***************************************************************************)
\* longest available_tools list handed to create_plan
MaxAvail == 2
\* longest suggested_tools list handed to create_plan
MaxSuggested == 4
\* most steps of a plan handed directly to _execute_plan
MaxSteps == 3
\* most steps of such a plan in the check of termination
LiveSteps == 2

\* most add_query calls on a session
MaxQueries == 12
\* most add_result calls on a session
MaxResults == 7

\* scores are kept in hundredths: Scale stands for the float 1.0
Scale == 100

\* the longest tool catalog
MaxCatalog == 2
\* the longest union of JSON-schema types
MaxUnion == 2

\* deque(maxlen=10) of recent_queries, deque(maxlen=5) of recent_results
QueriesMaxLen == 10
ResultsMaxLen == 5

None == "None"

(***************************************************************************)
(* Generic helpers for Python lists and dicts.                             *)
(***************************************************************************)
Range(s) == {s[i] : i \in 1..Len(s)}

\* all sequences over S of length at most n
RECURSIVE AllSeqs(_, _)
AllSeqs(S, n) == IF n = 0 THEN {<< >>} ELSE AllSeqs(S, n - 1) \cup [1..n -> S]

\* duplicate-free sequences over S of length at most n
DistinctSeqs(S, n) == {s \in AllSeqs(S, n) : Cardinality(Range(s)) = Len(s)}

\* s[:n]
Prefix(s, n) == SubSeq(s, 1, IF Len(s) < n THEN Len(s) ELSE n)

\* [x for x in s if x in allowed]
RECURSIVE FilterIn(_, _)
FilterIn(s, allowed) ==
    IF s = << >> THEN << >>
    ELSE IF Head(s) \in allowed THEN << Head(s) >> \o FilterIn(Tail(s), allowed)
         ELSE FilterIn(Tail(s), allowed)

(***************************************************************************)
(* Python dicts: sequences of <<key, value>> pairs, keys distinct.         *)
(***************************************************************************)
DictKeys(d) == {d[i][1] : i \in 1..Len(d)}
DictHas(d, k) == k \in DictKeys(d)
DictGet(d, k) == d[CHOOSE i \in 1..Len(d) : d[i][1] = k][2]
\* d[k] = v: an existing key keeps its position, a new key goes last
DictSet(d, k, v) ==
    IF DictHas(d, k) THEN [i \in 1..Len(d) |-> IF d[i][1] = k THEN << k, v >> ELSE d[i]]
    ELSE Append(d, << k, v >>)
\* Python truthiness of a string or None
Truthy(v) == v \notin {"", None}

\* dict.update(other): a key d holds takes other's value in place, the
\* other keys of other go last
DictUpdate(d, other) ==
    [i \in 1..Len(d) |->
        IF DictHas(other, d[i][1]) THEN << d[i][1], DictGet(other, d[i][1]) >> ELSE d[i]]
    \o SelectSeq(other, LAMBDA kv : ~DictHas(d, kv[1]))

\* the dict a run of assignments d[k] = v makes of an empty dict: a key stands
\* where it was first assigned and has the value assigned last
DictOfAssignments(pairs) ==
    LET firsts == SelectSeq([i \in 1..Len(pairs) |-> i],
                            LAMBDA i : \A j \in 1..(i - 1) : pairs[j][1] # pairs[i][1])
        last(k) == CHOOSE i \in 1..Len(pairs) :
                       /\ pairs[i][1] = k
                       /\ \A j \in (i + 1)..Len(pairs) : pairs[j][1] # k
    IN  [n \in 1..Len(firsts) |-> << pairs[firsts[n]][1], pairs[last(pairs[firsts[n]][1])][2] >>]

(***************************************************************************)
(* planner.py                                                              *)
(***************************************************************************)
StepStatus == {"pending", "running", "completed", "failed", "skipped"}

\* ExecutionStep(id, tool_name, parameters, depends_on, parallel_group,
\* optional); the mutable status field is kept in the variable step_status.
ExecutionStep(id, tool, params, deps, group, opt) ==
    [id |-> id, tool_name |-> tool, parameters |-> params, depends_on |-> deps,
     parallel_group |-> group, optional |-> opt]

\* PlanningPlanner.PATTERNS in dict order; a template step is its tool,
\* params_template, parallel_group and optional; triggers is the number of
\* triggers.
StepTemplate(tool, params_template, parallel_group, optional) ==
    [tool |-> tool, params_template |-> params_template,
     parallel_group |-> parallel_group, optional |-> optional]
PATTERNS ==
    << [name |-> "Revenue Analysis", priority |-> 10, triggers |-> 5,
        steps |-> << StepTemplate("smart_retrieve_revenue", << >>, 0, FALSE),
                     StepTemplate("smart_retrieve_monthly",
                                  << << "account", "400000" >> >>, 1, FALSE) >>],
       [name |-> "Variance Analysis", priority |-> 8, triggers |-> 6,
        steps |-> << StepTemplate("smart_retrieve_variance", << >>, 0, FALSE) >>],
       [name |-> "Plan Data Copy", priority |-> 7, triggers |-> 3,
        steps |-> << StepTemplate("copy_data", << >>, 0, FALSE) >>],
       [name |-> "Dimension Check", priority |-> 6, triggers |-> 4,
        steps |-> << StepTemplate("get_dimensions", << >>, 0, FALSE),
                     StepTemplate("get_members",
                                  << << "dimension_name", "Entity" >> >>, 1, TRUE) >>] >>

PatternIds == 1..Len(PATTERNS)

\* _match_pattern: matches[p] is the number of triggers of pattern p found in
\* the combined context; scores are doubled (score = matches + priority * 0.5)
\* to stay in the integers.  Returns the index of the pattern, 0 for None.
RECURSIVE MatchLoop(_, _, _, _)
MatchLoop(matches, p, best_match, best_score2) ==
    IF p > Len(PATTERNS) THEN (IF best_score2 >= 2 THEN best_match ELSE 0)
    ELSE LET score2 == 2 * matches[p] + PATTERNS[p].priority
         IN  IF matches[p] > 0 /\ score2 > best_score2
             THEN MatchLoop(matches, p + 1, p, score2)
             ELSE MatchLoop(matches, p + 1, best_match, best_score2)

match_pattern(matches) == MatchLoop(matches, 1, 0, 0)

\* tool_params of _filter_params_for_tool
tool_params(tool_name) ==
    CASE tool_name = "smart_retrieve" ->
            {"account", "entity", "period", "years", "scenario", "version",
             "cost_center", "region", "currency"}
      [] tool_name = "smart_retrieve_revenue" ->
            {"entity", "period", "years", "scenario", "cost_center"}
      [] tool_name = "smart_retrieve_monthly" ->
            {"account", "entity", "years", "scenario", "cost_center"}
      [] tool_name = "smart_retrieve_variance" ->
            {"account", "entity", "period", "years", "prior_year", "cost_center"}
      [] tool_name = "export_data_slice" -> {"plan_type", "grid_definition"}
      [] tool_name = "get_members" -> {"dimension_name"}
      [] tool_name = "get_member" -> {"dimension_name", "member_name", "expansion"}
      [] tool_name = "execute_job" -> {"job_type", "job_name", "parameters"}
      [] tool_name = "copy_data" ->
            {"from_scenario", "from_year", "from_period", "to_scenario", "to_year", "to_period"}
      [] tool_name = "clear_data" -> {"scenario", "year", "period"}
      [] tool_name = "set_substitution_variable" -> {"variable_name", "value", "plan_type"}
      [] tool_name = "get_job_status" -> {"job_id"}
      [] OTHER -> {}

\* entity_to_param.get(entity_type, entity_type)
entity_to_param(entity_type) == IF entity_type = "year" THEN "years" ELSE entity_type

\* tool_name.startswith("smart_retrieve") and "revenue" in tool_name
SmartRetrieveTools == {"smart_retrieve", "smart_retrieve_revenue", "smart_retrieve_monthly",
                       "smart_retrieve_variance"}
RevenueTools == {"smart_retrieve_revenue"}

\* _filter_params_for_tool: the entities the tool takes, under the names of
\* its parameters, the year under every year parameter of the tool, and a
\* default account for the retrieval tools
filter_params_for_tool(tool_name, entities) ==
    LET valid_params == tool_params(tool_name)
        named == [i \in 1..Len(entities) |->
                     << entity_to_param(entities[i][1]), entities[i][2] >>]
        year_params == SelectSeq(<< "years", "year", "from_year", "to_year" >>,
                                 LAMBDA k : k \in valid_params)
        years == IF DictHas(entities, "year")
                 THEN [i \in 1..Len(year_params) |->
                          << year_params[i], DictGet(entities, "year") >>]
                 ELSE << >>
        filtered == DictOfAssignments(
                        SelectSeq(named, LAMBDA kv : kv[1] \in valid_params) \o years)
    IN  IF tool_name \in SmartRetrieveTools /\ "account" \in valid_params
           /\ ~DictHas(filtered, "account")
        THEN Append(filtered, << "account", IF tool_name \in RevenueTools
                                           THEN "400000" ELSE "Net Income" >>)
        ELSE filtered

\* _next_step_id: the new value of _step_counter, which is also the id
next_step_id(counter) == counter + 1

\* _calculate_dependencies
DepsIncludingSelf(existing_steps, parallel_group) ==
    LET ids == [i \in 1..Len(existing_steps) |-> existing_steps[i].id]
    IN  ids \o << Len(existing_steps) + 1 >>
calculate_dependencies(existing_steps, parallel_group) ==
    IF parallel_group = 0 THEN << >>
    ELSE LET prev_group == parallel_group - 1
             RECURSIVE Ids(_)
             Ids(i) == IF i > Len(existing_steps) THEN << >>
                       ELSE IF existing_steps[i].parallel_group = prev_group
                            THEN << existing_steps[i].id >> \o Ids(i + 1)
                            ELSE Ids(i + 1)
         IN  Ids(1)

\* _create_fallback_steps; returns <<steps, counter>>
FallbackNoneWhenEmpty(available_tools, counter) ==
    IF available_tools = << >> THEN << << >>, counter >>
    ELSE << << ExecutionStep(next_step_id(counter), available_tools[1], << >>, << >>, 0, FALSE) >>,
            next_step_id(counter) >>
create_fallback_steps(available_tools, counter) ==
    LET default_tool ==
            IF "get_application_info" \in Range(available_tools)
            THEN "get_application_info"
            ELSE IF available_tools # << >> THEN available_tools[1]
                 ELSE "get_application_info"
    IN  << << ExecutionStep(next_step_id(counter), default_tool, << >>, << >>, 0, FALSE) >>,
           next_step_id(counter) >>

\* _build_from_pattern; returns the list of steps
RECURSIVE BuildLoop(_, _, _, _, _)
BuildLoop(templates, entities, available_tools, steps, counter) ==
    IF templates = << >> THEN << steps, counter >>
    ELSE LET t == Head(templates)
         IN  IF t.tool \notin Range(available_tools)
             THEN BuildLoop(Tail(templates), entities, available_tools, steps, counter)
             ELSE LET id == next_step_id(counter)
                      step == ExecutionStep(id, t.tool,
                                  DictUpdate(filter_params_for_tool(t.tool, entities),
                                             t.params_template),
                                  calculate_dependencies(steps, t.parallel_group),
                                  t.parallel_group, t.optional)
                  IN  BuildLoop(Tail(templates), entities, available_tools,
                                Append(steps, step), id)

build_from_pattern(p, entities, available_tools) ==
    LET built == BuildLoop(PATTERNS[p].steps, entities, available_tools, << >>, 0)
    IN  IF built[1] = << >>
        THEN create_fallback_steps(available_tools, built[2])[1]
        ELSE built[1]

\* _infer_tools_from_intent
infer_tools_from_intent(intent) ==
    CASE intent = "data_retrieval" -> << "smart_retrieve" >>
      [] intent = "dimension_exploration" -> << "get_dimensions", "get_members" >>
      [] intent = "job_management" -> << "list_jobs" >>
      [] intent = "reporting" -> << "get_documents" >>
      [] intent = "variance_analysis" -> << "smart_retrieve_variance" >>
      [] intent = "data_management" -> << "copy_data" >>
      [] intent = "substitution_variables" -> << "get_substitution_variables" >>
      [] OTHER -> << "get_application_info" >>

\* _dynamic_plan, parallel_group=i of enumerate: the group of the i-th tool,
\* counted from 1
DynamicGroupShared(i) == 0
dynamic_group(i) == i - 1

\* _dynamic_plan; returns the list of steps
RECURSIVE DynamicLoop(_, _, _, _, _)
DynamicLoop(tools, entities, i, steps, counter) ==
    IF i > Len(tools) THEN << steps, counter >>
    ELSE LET id == next_step_id(counter)
             step == ExecutionStep(id, tools[i], filter_params_for_tool(tools[i], entities),
                         IF steps # << >> THEN << steps[Len(steps)].id >> ELSE << >>,
                         dynamic_group(i), FALSE)
         IN  DynamicLoop(tools, entities, i + 1, Append(steps, step), id)

dynamic_plan(intent, entities, available_tools, suggested_tools) ==
    LET chosen == IF suggested_tools # << >> THEN suggested_tools
                  ELSE infer_tools_from_intent(intent)
        tools_to_use == FilterIn(chosen, Range(available_tools))
        built == DynamicLoop(Prefix(tools_to_use, 3), entities, 1, << >>, 0)
    IN  IF built[1] = << >>
        THEN create_fallback_steps(available_tools, built[2])[1]
        ELSE built[1]

\* create_plan: the steps of the returned ExecutionPlan
create_plan(intent, entities, matches, available_tools, suggested_tools) ==
    LET pattern == match_pattern(matches)
    IN  IF pattern # 0 THEN build_from_pattern(pattern, entities, available_tools)
        ELSE dynamic_plan(intent, entities, available_tools, suggested_tools)

(***************************************************************************)
(* context_memory.py                                                       *)
(***************************************************************************)
POVFields == {"years", "period", "scenario", "version", "currency", "entity",
              "cost_center", "future1", "region", "account"}

\* POVState(): the defaults of the dataclass
POVState ==
    [f \in POVFields |->
        CASE f = "years" -> "FY25"
          [] f = "period" -> "YearTotal"
          [] f = "scenario" -> "Actual"
          [] f = "version" -> "Final"
          [] f = "currency" -> "USD"
          [] f = "entity" -> "E501"
          [] f = "cost_center" -> "CC9999"
          [] f = "future1" -> "No Future1"
          [] f = "region" -> "R131"
          [] OTHER -> None]

\* the order of the keys of to_dict
POVFieldOrder == << "years", "period", "scenario", "version", "currency", "entity",
                   "cost_center", "future1", "region", "account" >>

\* POVState.to_dict: a new dict of the ten fields
to_dict(p) == [i \in 1..Len(POVFieldOrder) |-> << POVFieldOrder[i], p[POVFieldOrder[i]] >>]

\* POVState.from_dict: the ten keys are read with data.get and the default
\* of the field; every other key of data is dropped
from_dict(data) ==
    [f \in POVFields |-> IF DictHas(data, f) THEN DictGet(data, f) ELSE POVState[f]]

\* POVState.update(**kwargs): to_dict, dict.update, from_dict, each of the
\* three evaluated once
UpdateFromDefaults(p, kwargs) ==
    CHOOSE q \in {from_dict(d) : d \in {DictUpdate(s, kwargs) : s \in {to_dict(POVState)}}} : TRUE
POVUpdate(p, kwargs) ==
    CHOOSE q \in {from_dict(d) : d \in {DictUpdate(s, kwargs) : s \in {to_dict(p)}}} : TRUE

\* entity_to_pov of update_from_entities; None for a key it does not hold
entity_to_pov(k) ==
    CASE k = "year" -> "years"
      [] k \in {"period", "years", "scenario", "version", "currency", "entity",
                "cost_center", "region", "account"} -> k
      [] OTHER -> None

\* update_from_entities: the dict comprehension, then set_pov when non-empty
RECURSIVE PovUpdatesOf(_, _)
PovUpdatesOf(entities, acc) ==
    IF entities = << >> THEN acc
    ELSE LET k == Head(entities)[1]
             v == Head(entities)[2]
         IN  IF entity_to_pov(k) # None
             THEN PovUpdatesOf(Tail(entities), DictSet(acc, entity_to_pov(k), v))
             ELSE PovUpdatesOf(Tail(entities), acc)

update_from_entities(p, entities) == POVUpdate(p, PovUpdatesOf(entities, << >>))

\* update_from_result: the POV part (result data is a dict)
RECURSIVE ResultUpdatesOf(_, _)
ResultUpdatesOf(keys, data) ==
    IF keys = << >> THEN << >>
    ELSE IF DictHas(data, Head(keys))
         THEN << << Head(keys), DictGet(data, Head(keys)) >> >> \o ResultUpdatesOf(Tail(keys), data)
         ELSE ResultUpdatesOf(Tail(keys), data)

ResultLeftOutOfPov(p, data) == p
update_from_result(p, data) ==
    POVUpdate(p, ResultUpdatesOf(<< "entity", "account", "period", "years",
                                    "scenario", "version", "cost_center", "region" >>, data))

\* tool_params_map of get_suggested_params
tool_params_map(tool_name) ==
    CASE tool_name = "smart_retrieve" ->
            << "account", "entity", "period", "years", "scenario", "version",
               "cost_center", "region", "currency" >>
      [] tool_name = "smart_retrieve_revenue" ->
            << "entity", "period", "years", "scenario", "cost_center" >>
      [] tool_name = "smart_retrieve_monthly" ->
            << "account", "entity", "years", "scenario", "cost_center" >>
      [] tool_name = "smart_retrieve_variance" ->
            << "account", "entity", "period", "years", "cost_center" >>
      [] OTHER -> << >>

\* get_suggested_params: the POV projected on the tool's parameters,
\* falsy values left out
get_suggested_params(p, tool_name) ==
    LET relevant == SelectSeq(tool_params_map(tool_name),
                              LAMBDA f : f \in POVFields /\ Truthy(p[f]))
    IN  [i \in 1..Len(relevant) |-> << relevant[i], p[relevant[i]] >>]

(***************************************************************************)
(* orchestrator.py: pure parts                                             *)
(***************************************************************************)
\* process, lines 138-140: merge suggested into enriched.  The loop changes
\* the value of a key enriched holds (in place) and puts a new key last, so
\* its result is the pairs of enriched, changed where the loop assigns, then
\* the suggested pairs of the keys enriched did not hold.
MergeAlways(enriched, suggested_params) ==
    [i \in 1..Len(enriched) |->
        IF DictHas(suggested_params, enriched[i][1])
        THEN << enriched[i][1], DictGet(suggested_params, enriched[i][1]) >>
        ELSE enriched[i]]
    \o SelectSeq(suggested_params, LAMBDA kv : ~DictHas(enriched, kv[1]))
merge_suggested(enriched, suggested_params) ==
    [i \in 1..Len(enriched) |->
        IF ~Truthy(enriched[i][2]) /\ DictHas(suggested_params, enriched[i][1])
        THEN << enriched[i][1], DictGet(suggested_params, enriched[i][1]) >>
        ELSE enriched[i]]
    \o SelectSeq(suggested_params, LAMBDA kv : ~DictHas(enriched, kv[1]))

\* _execute_plan, lines 258-263: sorted(groups.keys()) and groups[group_id],
\* the latter as indices into plan.steps in plan order
GroupIdSet(steps) == {steps[i].parallel_group : i \in 1..Len(steps)}

RECURSIVE SortedSeq(_)
SortedSeq(S) ==
    IF S = {} THEN << >>
    ELSE LET m == CHOOSE x \in S : \A y \in S : x <= y
         IN  << m >> \o SortedSeq(S \ {m})

sorted_groups(steps) == SortedSeq(GroupIdSet(steps))

RECURSIVE GroupFrom(_, _, _)
GroupFrom(steps, g, i) ==
    IF i > Len(steps) THEN << >>
    ELSE IF steps[i].parallel_group = g THEN << i >> \o GroupFrom(steps, g, i + 1)
         ELSE GroupFrom(steps, g, i + 1)

group_steps(steps, g) == GroupFrom(steps, g, 1)

\* results.extend(group_results): the tasks' results in group order
RECURSIVE Gathered(_, _)
Gathered(idxs, res) ==
    IF idxs = << >> THEN << >> ELSE << res[Head(idxs)] >> \o Gathered(Tail(idxs), res)

\* process, line 206: all(r.get("status") == "success" for r in results)
AnySuccess(rs) == \E i \in 1..Len(rs) : rs[i].status = "success"
all_success(rs) == \A i \in 1..Len(rs) : rs[i].status = "success"

\* _execute_plan, line 286: the check that ends the loop over the groups
StopIfLastOptional(rs, steps, idxs) ==
    /\ rs # << >>
    /\ rs[Len(rs)].status = "error"
    /\ steps[idxs[Len(idxs)]].optional
should_stop(rs, steps, idxs) ==
    /\ rs # << >>
    /\ rs[Len(rs)].status = "error"
    /\ ~steps[idxs[Len(idxs)]].optional

(***************************************************************************)
(* State                                                                   *)
(***************************************************************************)
VARIABLES
    entry,                     \* the call modelled: "process", "_execute_plan", "create_plan"
    user_query,                \* what the classifier and the planner read in the query text
    tool_handlers,             \* keys of self._tool_handlers = self._available_tools
    enable_parallel_execution, \* self.config.enable_parallel_execution
    context_memory,            \* self.context_memory is set
    llm_available,             \* self.llm_reasoner and self.llm_reasoner.is_available
    rl_service,                \* self.rl_service is set
    handler_data,              \* the data dicts the results of the registered handlers may carry
    pov,                       \* the session's POV in the context memory
    pc,                        \* the stage process() is at
    intent,                    \* the Intent of _classify_intent
    enriched_entities,         \* process: enriched_entities
    plan,                      \* plan.steps
    step_status,               \* step.status of every step of the plan
    exec_pc,                   \* where _execute_plan is
    group_pos,                 \* position of group_id in sorted(groups.keys())
    cursor,                    \* position of step in group_steps (sequential branch)
    task,                      \* the _execute_step call of every step
    step_result,               \* what the _execute_step call of a step returned
    exec_results,              \* _execute_plan: results
    dispatch,                  \* what _execute_step read and sent for every step
    invocations,               \* how often execute_tool was called for every step
    result_cache,              \* tools whose result update_from_result has cached
    results,                   \* process: results
    synthesis,                 \* process: synthesis
    recommendations,           \* process: recommendations
    collaborator_calls,        \* how the calls of the LLM and RL collaborators ended
    response,                  \* the OrchestratorResponse returned, NoResponse before
    sessions,                  \* ContextMemory._sessions: the ConversationMemory of a session
    store,                     \* the rows of the backing store of a ContextMemory
    written,                   \* per session, the POV fields written by its callers so far
    added,                     \* per session, how many queries and results were added so far
    now,                       \* datetime.utcnow(), in seconds
    save_log,                  \* per session, whether a save of its POV has failed
    last_call,                 \* the last call made on the ContextMemory and how it ended
    pov_call,                  \* a POVState.update call: receiver, arguments, result
    classify_call,             \* a classify or _classify_intent call: inputs and result
    adapter_call,              \* a ClaudeAdapter / AdkAdapter call: adapter, inputs, result
    plan_runs,                 \* _execute_plan run on one plan under both configurations
    first_access,              \* threads in get_or_create_session of one new session id
    initialization,            \* coroutines in ensure_initialized: flag, lock, positions
    traversal                  \* a hierarchy traversal of the metadata cache in progress

config_vars == << entry, user_query, tool_handlers, enable_parallel_execution, context_memory,
                  llm_available, rl_service, handler_data >>
exec_vars == << step_status, exec_pc, group_pos, cursor, task, step_result, exec_results,
               dispatch, invocations, result_cache >>
post_vars == << results, synthesis, recommendations, collaborator_calls, response >>
memory_vars == << sessions, store, written, added, now, save_log, last_call >>
\* the variables of the components that are run on their own
late_vars == << first_access, initialization, traversal >>
other_vars == << memory_vars, pov_call, classify_call, adapter_call, plan_runs, late_vars >>
\* the variables of the pipeline of orchestrator and planner
pipeline_vars == << entry, user_query, tool_handlers, enable_parallel_execution,
                    context_memory, llm_available, rl_service, handler_data,
                    pov, pc, intent, enriched_entities, plan,
                    step_status, exec_pc, group_pos, cursor, task, step_result,
                    exec_results, dispatch, invocations, result_cache,
                    results, synthesis, recommendations, collaborator_calls, response >>
vars == << entry, user_query, tool_handlers, enable_parallel_execution, context_memory,
           llm_available, rl_service, handler_data, pov, pc, intent, enriched_entities, plan,
           step_status, exec_pc, group_pos, cursor, task, step_result, exec_results,
           dispatch, invocations, result_cache,
           results, synthesis, recommendations, collaborator_calls, response,
           sessions, store, written, added, now, save_log, last_call, pov_call, classify_call,
           adapter_call, plan_runs, first_access, initialization, traversal >>

(***************************************************************************)
(* Input domains                                                           *)
(***************************************************************************)
\* tools create_plan is tried with
PlanTools == {"smart_retrieve_revenue", "smart_retrieve_monthly", "get_dimensions",
              "get_members", "get_application_info"}
\* tools suggested to create_plan (one of them is never available)
SuggestedTools == {"get_dimensions", "smart_retrieve"}
PlanIntents == {"data_retrieval", "dimension_exploration", "unknown"}
MatchVectors == [PatternIds -> 0..1]

\* what _classify_intent hands on: INTENT_CONFIG tools of two categories,
\* the unknown intent of _classify_with_llm, and an intent without tools
ClassifierOutputs ==
    { [name |-> "data_retrieval",
       suggested_tools |-> << "smart_retrieve", "smart_retrieve_revenue",
                              "smart_retrieve_monthly", "export_data_slice" >>],
      [name |-> "dimension_exploration",
       suggested_tools |-> << "get_dimensions", "get_members", "get_member" >>],
      [name |-> "unknown", suggested_tools |-> << "get_application_info" >>],
      [name |-> "unknown", suggested_tools |-> << >>] }

EntityKeys == {"year", "years"}
EntityValues == {"", "FY24", "FY26"}
EntityDicts ==
    UNION { { [i \in 1..Len(ks) |-> << ks[i], vs[i] >>] : vs \in [1..Len(ks) -> EntityValues] }
            : ks \in DistinctSeqs(EntityKeys, Cardinality(EntityKeys)) }

\* the triggers found in the queries of process(): none, one of Revenue
\* Analysis, one of Dimension Check
ProcessMatches == {m \in MatchVectors : \A p \in PatternIds : m[p] > 0 => p \in {1, 4}}
                     \ {[p \in PatternIds |-> IF p \in {1, 4} THEN 1 ELSE 0]}

\* a query, as far as the pipeline reads it: the intent and the entities the
\* classifier finds in it and the playbook triggers the planner finds in it
Query(out, ents, m) == [classified |-> out, entities |-> ents, matches |-> m]
NoQuery == Query([name |-> None, suggested_tools |-> << >>], << >>, [p \in PatternIds |-> 0])
ProcessQueries ==
    {Query(out, ents, m) : out \in ClassifierOutputs, ents \in EntityDicts, m \in ProcessMatches}

ProcessHandlers ==
    { << >>,
      << "get_dimensions", "get_members" >>,
      << "smart_retrieve", "smart_retrieve_revenue", "smart_retrieve_monthly",
         "get_application_info" >> }

\* OrchestratorConfig and collaborators of the orchestrators process() runs on
ProcessConfigs ==
    { [parallel |-> TRUE,  memory |-> TRUE,  llm |-> TRUE,  rl |-> TRUE],
      [parallel |-> FALSE, memory |-> FALSE, llm |-> FALSE, rl |-> FALSE],
      [parallel |-> FALSE, memory |-> TRUE,  llm |-> TRUE,  rl |-> FALSE],
      [parallel |-> TRUE,  memory |-> FALSE, llm |-> FALSE, rl |-> TRUE] }

\* the orchestrators _execute_plan is called on directly
DirectConfigs ==
    { [parallel |-> TRUE,  memory |-> FALSE],
      [parallel |-> FALSE, memory |-> FALSE],
      [parallel |-> TRUE,  memory |-> TRUE] }

\* plans handed directly to _execute_plan: any steps over two groups, of a
\* tool with a handler and a tool without one, listed by ascending
\* parallel_group as create_plan lists them, every step depending on the
\* steps of the group before its own as _calculate_dependencies has it
DirectDeps(g, i) == SelectSeq([j \in 1..(i - 1) |-> j], LAMBDA j : g[j] = g[i] - 1)
DirectHandlers == << "get_dimensions" >>
DirectTools == {"get_dimensions", "get_members"}
DirectGroups == {0, 1}
DirectPlans ==
    UNION { { [i \in 1..n |-> ExecutionStep(i, t[i], << >>, DirectDeps(g, i), g[i], o[i])] :
                t \in [1..n -> DirectTools],
                g \in {h \in [1..n -> DirectGroups] : \A i \in 1..(n - 1) : h[i] <= h[i + 1]},
                o \in [1..n -> BOOLEAN] }
            : n \in 1..MaxSteps }

\* POV fields a tool result carries in its data
ResultData == { << >>, << << "years", "FY24" >> >> }

\* the runs the dispatch of parameters is checked on: queries that name an
\* entity, with or without a trigger of Revenue Analysis, handlers of the
\* retrieval tools, results that carry an entity or an account, and direct
\* plans of a retrieval tool, with a placeholder or without parameters
DispatchQueries ==
    {Query(out, ents, m) :
        out \in {c \in ClassifierOutputs : c.name = "data_retrieval"},
        ents \in { << >>, << << "entity", "E100" >> >> },
        m \in {v \in MatchVectors : \A q \in PatternIds : v[q] > 0 => q = 1}}
DispatchHandlers ==
    { << "smart_retrieve_revenue", "smart_retrieve_monthly" >>,
      << "smart_retrieve_revenue" >> }
DispatchData ==
    { << >>, << << "entity", "E200" >> >>,
      << << "entity", "E300" >>, << "account", "600000" >> >> }
DispatchConfigs == {c \in DirectConfigs : c.memory}
                       \cup {[parallel |-> FALSE, memory |-> TRUE]}
DispatchParams == { << >>, << << "entity", "%ENTITY%" >> >> }
DispatchPlans ==
    UNION { { [i \in 1..n |-> ExecutionStep(i, "smart_retrieve_revenue", ps, DirectDeps(g, i),
                                            g[i], FALSE)] :
                ps \in DispatchParams,
                g \in {h \in [1..n -> DirectGroups] : \A i \in 1..(n - 1) : h[i] <= h[i + 1]} }
            : n \in 2..MaxSteps }

NoIntent == [name |-> None, entities |-> << >>, suggested_tools |-> << >>]

(***************************************************************************)
(* OrchestratorResponse                                                    *)
(***************************************************************************)
\* no response yet: process() has not returned
NoResponse ==
    [returned |-> FALSE, success |-> FALSE, results |-> << >>, has_plan |-> FALSE,
     has_intent |-> FALSE, synthesis |-> None, recommendations |-> << >>,
     error_explanation |-> None]

\* the response of lines 205-214
OrchestratorResponse(success, rs, synth, recs) ==
    [returned |-> TRUE, success |-> success, results |-> rs, has_plan |-> TRUE, has_intent |-> TRUE,
     synthesis |-> synth, recommendations |-> recs, error_explanation |-> None]

\* the response of lines 153-157 (no steps)
NoStepsResponse ==
    [returned |-> TRUE, success |-> FALSE, results |-> << >>, has_plan |-> FALSE, has_intent |-> TRUE,
     synthesis |-> None, recommendations |-> << >>,
     error_explanation |-> "couldn't determine which tools to use"]

\* the response of the top-level handler, lines 216-223; rs is the list
\* process() holds in its variable results when the exception arrives
ErrorResponseNoExplanation(rs) ==
    [returned |-> TRUE, success |-> FALSE, results |-> << >>, has_plan |-> FALSE, has_intent |-> FALSE,
     synthesis |-> None, recommendations |-> << >>, error_explanation |-> None]
error_response(rs) ==
    [returned |-> TRUE, success |-> FALSE, results |-> << >>, has_plan |-> FALSE, has_intent |-> FALSE,
     synthesis |-> None, recommendations |-> << >>, error_explanation |-> "str(e)"]

\* no result yet: the _execute_step call has not returned
NoResult == [step |-> 0, tool_name |-> None, status |-> None, data |-> << >>]

\* the dict _execute_step returns; step is the index of the step it ran and
\* data the POV fields of the data of the tool's result
StepResult(i, status, data) ==
    [step |-> i, tool_name |-> plan[i].tool_name, status |-> status, data |-> data]

\* _execute_step has not reached its handler lookup
NoDispatch == [pov |-> POVState, suggested |-> << >>, parameters |-> << >>]

\* no call made on the ContextMemory yet
NoCall == [op |-> None, session |-> None, raised |-> FALSE, returned |-> POVState,
           read |-> "none", at |-> 0]

\* no POVState.update call
NoPovCall == [stage |-> "idle", receiver |-> POVState, kwargs |-> << >>,
              receiver_after |-> POVState, result |-> POVState, again |-> POVState]

\* no adapter call
NoAdapterCall == [stage |-> "idle"]

\* no pair of _execute_plan runs
NoPlanRuns == [stage |-> "idle"]

\* no classify call
NoClassifyCall == [stage |-> "idle", use_llm |-> FALSE, llm_reasoner |-> FALSE,
                   hits |-> << >>, entities |-> {}, result |-> << >>]

\* no collaborator called yet
NoCalls == [synthesis |-> "not_asked", rl |-> "not_asked", llm |-> "not_asked"]

(***************************************************************************)
(* Initial states                                                          *)
(***************************************************************************)
IdleExec ==
    /\ step_status = << >>
    /\ exec_pc = "idle"
    /\ group_pos = 0
    /\ cursor = 0
    /\ task = << >>
    /\ step_result = << >>
    /\ exec_results = << >>
    /\ dispatch = << >>
    /\ invocations = << >>
    /\ result_cache = {}

IdlePost ==
    /\ results = << >>
    /\ synthesis = None
    /\ recommendations = << >>
    /\ collaborator_calls = NoCalls
    /\ response = NoResponse

\* no ContextMemory and no POVState under test
IdleMemory ==
    /\ sessions = << >>
    /\ store = << >>
    /\ written = << >>
    /\ added = << >>
    /\ now = 0
    /\ save_log = << >>
    /\ last_call = NoCall

NoAccess == [stage |-> "idle"]
NoInitialization == [stage |-> "idle"]
NoTraversal == [stage |-> "idle"]
IdleLate ==
    /\ first_access = NoAccess
    /\ initialization = NoInitialization
    /\ traversal = NoTraversal

IdleOthers ==
    /\ IdleLate
    /\ IdleMemory
    /\ pov_call = NoPovCall
    /\ classify_call = NoClassifyCall
    /\ adapter_call = NoAdapterCall
    /\ plan_runs = NoPlanRuns

\* a process(user_query) call on a constructed orchestrator
ProcessCall(queries, handlers, configs, data) ==
    /\ entry = "process"
    /\ handler_data = data
    /\ user_query \in queries
    /\ tool_handlers \in handlers
    /\ \E c \in configs :
          /\ enable_parallel_execution = c.parallel
          /\ context_memory = c.memory
          /\ llm_available = c.llm
          /\ rl_service = c.rl
    /\ pov = POVState
    /\ pc = "Classifying"
    /\ intent = NoIntent
    /\ enriched_entities = << >>
    /\ plan = << >>
    /\ IdleExec
    /\ IdlePost
    /\ IdleOthers

\* a direct _execute_plan(plan) call
ExecuteCall(plans, handlers, configs, data) ==
    /\ entry = "_execute_plan"
    /\ handler_data = data
    /\ user_query = NoQuery
    /\ tool_handlers = handlers
    /\ \E c \in configs :
          /\ enable_parallel_execution = c.parallel
          /\ context_memory = c.memory
    /\ llm_available = FALSE
    /\ rl_service = FALSE
    /\ pov = POVState
    /\ pc = "Executing"
    /\ intent = NoIntent
    /\ enriched_entities = << >>
    /\ plan \in plans
    /\ step_status = [i \in 1..Len(plan) |-> "pending"]
    /\ exec_pc = "groups"
    /\ group_pos = 1
    /\ cursor = 0
    /\ task = [i \in 1..Len(plan) |-> "none"]
    /\ step_result = [i \in 1..Len(plan) |-> NoResult]
    /\ exec_results = << >>
    /\ dispatch = [i \in 1..Len(plan) |-> NoDispatch]
    /\ invocations = [i \in 1..Len(plan) |-> 0]
    /\ result_cache = {}
    /\ IdlePost
    /\ IdleOthers

InitProcess == ProcessCall(ProcessQueries, ProcessHandlers, ProcessConfigs, ResultData)
InitExecute == ExecuteCall(DirectPlans, DirectHandlers, DirectConfigs, ResultData)

Init == InitProcess \/ InitExecute

InitDispatch ==
    \/ ProcessCall(DispatchQueries, DispatchHandlers, ProcessConfigs, DispatchData)
    \/ ExecuteCall(DispatchPlans, << "smart_retrieve_revenue" >>, DispatchConfigs, DispatchData)

\* agent.py, TOOL_HANDLERS: keys of the registry, the agentic tool among them
TOOL_HANDLERS == << "get_application_info", "get_dimensions", "get_members",
                    "agentic_query" >>

\* get_orchestrator: the handlers handed to set_tool_handlers
HandlersWithAgenticQuery(registry) == registry
orchestrator_handlers(registry) == FilterIn(registry, Range(registry) \ {"agentic_query"})

\* what the classification of a query may hand on to the orchestrator of
\* get_orchestrator: tools that include agentic_query, or none
AgenticOutputs ==
    { [name |-> "unknown", suggested_tools |-> << "agentic_query", "get_dimensions" >>],
      [name |-> "dimension_exploration", suggested_tools |-> << "agentic_query" >>],
      [name |-> "unknown", suggested_tools |-> << >>] }
AgenticQueries ==
    {Query(out, << >>, m) : out \in AgenticOutputs, m \in ProcessMatches}

\* agentic_query: process(query) on the orchestrator of get_orchestrator
InitAgentic ==
    ProcessCall(AgenticQueries, {orchestrator_handlers(TOOL_HANDLERS)}, ProcessConfigs,
                ResultData)

\* a create_plan call
InitPlan ==
    /\ entry = "create_plan"
    /\ \E m \in MatchVectors : user_query = Query([name |-> None, suggested_tools |-> << >>], << >>, m)
    /\ tool_handlers \in DistinctSeqs(PlanTools, MaxAvail)
    /\ enable_parallel_execution = TRUE
    /\ context_memory = FALSE
    /\ llm_available = FALSE
    /\ rl_service = FALSE
    /\ handler_data = {}
    /\ pov = POVState
    /\ pc = "Planning"
    /\ \E n \in PlanIntents, st \in AllSeqs(SuggestedTools, MaxSuggested) :
          intent = [name |-> n, entities |-> << >>, suggested_tools |-> st]
    /\ enriched_entities = << >>
    /\ plan = << >>
    /\ IdleExec
    /\ IdlePost
    /\ IdleOthers

\* no pipeline call: the components are run on their own
IdlePipeline ==
    /\ entry = None
    /\ user_query = NoQuery
    /\ tool_handlers = << >>
    /\ enable_parallel_execution = FALSE
    /\ context_memory = FALSE
    /\ llm_available = FALSE
    /\ rl_service = FALSE
    /\ handler_data = {}
    /\ pov = POVState
    /\ pc = "idle"
    /\ intent = NoIntent
    /\ enriched_entities = << >>
    /\ plan = << >>
    /\ IdleExec
    /\ IdlePost

(***************************************************************************)
(* process(): classification, enrichment, planning                         *)
(***************************************************************************)
\* line 124: _classify_intent
Classify ==
    /\ entry = "process"
    /\ pc = "Classifying"
    /\ intent' = [name |-> user_query.classified.name, entities |-> user_query.entities,
                  suggested_tools |-> user_query.classified.suggested_tools]
    /\ pc' = "Enriching"
    /\ UNCHANGED << other_vars, config_vars, pov, enriched_entities, plan, exec_vars, post_vars >>

\* lines 127-140: enriched_entities, for the POV update_from_entities left
first_suggested_tool(it) ==
    IF it.suggested_tools # << >> THEN it.suggested_tools[1] ELSE ""

enrich(it, memory, p) ==
    IF memory
    THEN merge_suggested(it.entities, get_suggested_params(p, first_suggested_tool(it)))
    ELSE it.entities

Enrich ==
    /\ entry = "process"
    /\ pc = "Enriching"
    /\ pov' = IF context_memory THEN update_from_entities(pov, intent.entities) ELSE pov
    /\ enriched_entities' =
           enrich(intent, context_memory, update_from_entities(pov, intent.entities))
    /\ pc' = "Planning"
    /\ UNCHANGED << other_vars, config_vars, intent, plan, exec_vars, post_vars >>

\* lines 143-160: create_plan, the return for a plan without steps, and the
\* call of _execute_plan up to its loop over the groups
Plan ==
    /\ entry = "process"
    /\ pc = "Planning"
    /\ LET steps == create_plan(intent.name, enriched_entities, user_query.matches, tool_handlers,
                                intent.suggested_tools)
       IN  /\ plan' = steps
           /\ IF steps = << >>
              THEN /\ response' = NoStepsResponse
                   /\ pc' = "done"
                   /\ UNCHANGED exec_vars
              ELSE /\ response' = response
                   /\ pc' = "Executing"
                   /\ step_status' = [i \in 1..Len(steps) |-> "pending"]
                   /\ exec_pc' = "groups"
                   /\ group_pos' = 1
                   /\ cursor' = 0
                   /\ task' = [i \in 1..Len(steps) |-> "none"]
                   /\ step_result' = [i \in 1..Len(steps) |-> NoResult]
                   /\ exec_results' = << >>
                   /\ dispatch' = [i \in 1..Len(steps) |-> NoDispatch]
                   /\ invocations' = [i \in 1..Len(steps) |-> 0]
                   /\ result_cache' = result_cache
    /\ UNCHANGED << other_vars, config_vars, pov, intent, enriched_entities, results, synthesis,
                    recommendations, collaborator_calls >>

\* create_plan called on its own
CreatePlan ==
    /\ entry = "create_plan"
    /\ pc = "Planning"
    /\ plan' = create_plan(intent.name, enriched_entities, user_query.matches, tool_handlers,
                            intent.suggested_tools)
    /\ pc' = "Planned"
    /\ UNCHANGED << other_vars, config_vars, pov, intent, enriched_entities, exec_vars, post_vars >>

(***************************************************************************)
(* _execute_plan and _execute_step                                         *)
(***************************************************************************)
Groups == sorted_groups(plan)
CurrentGroup == group_steps(plan, Groups[group_pos])

\* line 267: the test that takes the concurrent branch
GatherWithoutConfig(parallel, steps_of_group) == Len(steps_of_group) > 1
use_gather(parallel, steps_of_group) == parallel /\ Len(steps_of_group) > 1

\* lines 263-272 and 277: the next group is taken up; with parallel execution
\* and more than one step, gather makes one task per step
EnterGroup ==
    /\ exec_pc = "groups"
    /\ group_pos <= Len(Groups)
    /\ IF use_gather(enable_parallel_execution, CurrentGroup)
       THEN /\ exec_pc' = "gather"
            /\ task' = [i \in 1..Len(plan) |->
                          IF i \in Range(CurrentGroup) THEN "created" ELSE task[i]]
            /\ cursor' = 0
       ELSE /\ exec_pc' = "seq"
            /\ cursor' = 1
            /\ task' = task
    /\ UNCHANGED << other_vars, config_vars, pov, pc, intent, enriched_entities, plan, step_status,
                    group_pos, step_result, exec_results, dispatch, invocations, result_cache,
                    post_vars >>

\* a task of gather starts when the tasks made before it have started; the
\* sequential branch calls _execute_step for the step under the cursor
MayBegin(i) ==
    \/ /\ task[i] = "created"
       /\ \A j \in 1..(i - 1) : task[j] # "created"
    \/ /\ exec_pc = "seq"
       /\ cursor <= Len(CurrentGroup)
       /\ CurrentGroup[cursor] = i
       /\ task[i] = "none"

\* lines 336-342: the one call of execute_tool _execute_step makes for step i;
\* nothing reads the result cache before it and nothing repeats it after a
\* failure (retry_count and max_retries of ExecutionStep are never read)
SkipCachedTool(calls, i) ==
    IF plan[i].tool_name \in result_cache THEN calls ELSE [calls EXCEPT ![i] = @ + 1]
invoke_tool(calls, i) == [calls EXCEPT ![i] = @ + 1]

\* lines 311-318: what the loop over the suggested parameters makes of params.
\* It assigns to the key it is at only, so it changes the value of a key
\* params holds in place and puts a new key last.
PlaceholderValues == {"%ENTITY%"}
is_placeholder(params, k) == DictHas(params, k) /\ DictGet(params, k) \in PlaceholderValues
is_missing(params, k) == ~DictHas(params, k) \/ ~Truthy(DictGet(params, k))
StepDefaults == << << "entity", "E501" >>, << "version", "Final" >> >>
is_default(k, v) == DictHas(StepDefaults, k) /\ v = DictGet(StepDefaults, k)
merge_context(params, suggested) ==
    DictUpdate(params,
               SelectSeq(suggested,
                         LAMBDA kv : \/ is_missing(params, kv[1])
                                     \/ is_placeholder(params, kv[1])
                                     \/ (kv[1] \in {"account", "entity"}
                                            /\ ~is_default(kv[1], kv[2]))))

\* lines 301-318: the POV read, the suggested parameters got from it and the
\* parameters made for the tool call
step_params(step, memory, p) ==
    IF memory
    THEN [pov |-> p, suggested |-> get_suggested_params(p, step.tool_name),
          parameters |-> merge_context(step.parameters,
                                       get_suggested_params(p, step.tool_name))]
    ELSE [pov |-> p, suggested |-> << >>, parameters |-> step.parameters]

\* _execute_step, lines 298-337, up to the await of the tool: raises is an
\* exception of lines 298-318 (outside the try), which reads the context memory
BeginStep(i) ==
    /\ i \in 1..Len(plan)
    /\ MayBegin(i)
    /\ \E raises \in (IF context_memory THEN BOOLEAN ELSE {FALSE}) :
          IF raises
          THEN /\ task' = [task EXCEPT ![i] = "raised"]
               /\ UNCHANGED << step_status, step_result, dispatch, invocations >>
          ELSE /\ dispatch' = [dispatch EXCEPT ![i] = step_params(plan[i], context_memory, pov)]
               /\ IF plan[i].tool_name \notin Range(tool_handlers)
                  THEN /\ task' = [task EXCEPT ![i] = "done"]
                       /\ step_result' = [step_result EXCEPT
                                             ![i] = StepResult(i, "error", << >>)]
                       /\ UNCHANGED << step_status, invocations >>
                  ELSE /\ task' = [task EXCEPT ![i] = "awaiting"]
                       /\ step_status' = [step_status EXCEPT ![i] = "running"]
                       /\ invocations' = invoke_tool(invocations, i)
                       /\ UNCHANGED step_result
    /\ UNCHANGED << other_vars, config_vars, pov, pc, intent, enriched_entities, plan, exec_pc,
                    group_pos, cursor, exec_results, result_cache, post_vars >>

\* what execute_tool does: returns a dict with status success, error or
\* another status (not_found, warning, ...), or raises
ToolOutcomes == {"success", "error", "not_found", "raises"}

\* the status _execute_step gives the step for a tool outcome, lines 344, 357
status_of(outcome) == IF outcome = "success" THEN "completed" ELSE "failed"

\* the status of the result _execute_step returns, lines 350-363
result_status(outcome) == IF outcome = "raises" THEN "error" ELSE outcome

\* update_from_result, lines 236-238: the result is cached under the key of
\* its tool and parameters (the parameters of a tool's steps are the same
\* within a plan: _filter_params_for_tool of the same entities)
cache_result(cache, tool_name) == cache \cup {tool_name}

\* _execute_step, lines 337-363: the tool call returns or raises; a successful
\* result with data updates the context memory (the data of a result is read
\* there only)
FinishStep(i) ==
    /\ i \in 1..Len(plan)
    /\ task[i] = "awaiting"
    /\ \E outcome \in ToolOutcomes :
       \E data \in (IF context_memory /\ outcome = "success" THEN handler_data ELSE {<< >>}) :
          /\ step_status' = [step_status EXCEPT ![i] = status_of(outcome)]
          /\ step_result' = [step_result EXCEPT
                                ![i] = StepResult(i, result_status(outcome), data)]
          /\ pov' = IF outcome = "success" /\ context_memory
                    THEN update_from_result(pov, data) ELSE pov
          /\ result_cache' = IF outcome = "success" /\ context_memory
                             THEN cache_result(result_cache, plan[i].tool_name)
                             ELSE result_cache
    /\ task' = [task EXCEPT ![i] = "done"]
    /\ UNCHANGED << other_vars, config_vars, pc, intent, enriched_entities, plan, exec_pc, group_pos,
                    cursor, exec_results, dispatch, invocations, post_vars >>

\* lines 281-283: the test that leaves the loop over the steps of a group
BreakOnAnyError(result, step) == result.status = "error"
sequential_break(result, step) == result.status = "error" /\ ~step.optional

\* lines 278-283: the sequential branch appends the result and goes on to the
\* next step, or leaves the group after a mandatory step's error
CollectSequential ==
    /\ exec_pc = "seq"
    /\ cursor <= Len(CurrentGroup)
    /\ task[CurrentGroup[cursor]] = "done"
    /\ LET i == CurrentGroup[cursor]
       IN  /\ exec_results' = Append(exec_results, step_result[i])
           /\ IF sequential_break(step_result[i], plan[i]) \/ cursor = Len(CurrentGroup)
              THEN exec_pc' = "check" /\ cursor' = cursor
              ELSE exec_pc' = "seq" /\ cursor' = cursor + 1
    /\ UNCHANGED << other_vars, config_vars, pov, pc, intent, enriched_entities, plan, step_status,
                    group_pos, task, step_result, dispatch, invocations, result_cache,
                    post_vars >>

\* lines 273-274: gather returns when every task has returned
CollectGather ==
    /\ exec_pc = "gather"
    /\ \A k \in 1..Len(CurrentGroup) : task[CurrentGroup[k]] = "done"
    /\ exec_results' = exec_results \o Gathered(CurrentGroup, step_result)
    /\ exec_pc' = "check"
    /\ UNCHANGED << other_vars, config_vars, pov, pc, intent, enriched_entities, plan, step_status,
                    group_pos, cursor, task, step_result, dispatch, invocations, result_cache,
                    post_vars >>

\* lines 286-287: leave the loop over the groups, or go to the next group
CheckGroup ==
    /\ exec_pc = "check"
    /\ group_pos' = IF should_stop(exec_results, plan, CurrentGroup)
                    THEN Len(Groups) + 1 ELSE group_pos + 1
    /\ exec_pc' = "groups"
    /\ UNCHANGED << other_vars, config_vars, pov, pc, intent, enriched_entities, plan, step_status,
                    cursor, task, step_result, exec_results, dispatch, invocations, result_cache,
                    post_vars >>

\* line 289 and line 160: _execute_plan returns its results
ReturnResults ==
    /\ exec_pc = "groups"
    /\ group_pos > Len(Groups)
    /\ exec_pc' = "returned"
    /\ IF entry = "process"
       THEN results' = exec_results /\ pc' = "Synthesizing"
       ELSE results' = results /\ pc' = "Returned"
    /\ UNCHANGED << other_vars, config_vars, pov, intent, enriched_entities, plan, step_status,
                    group_pos, cursor, task, step_result, exec_results, dispatch, invocations,
                    result_cache, synthesis,
                    recommendations, collaborator_calls, response >>

\* an exception of _execute_step leaves _execute_plan (gather hands on the
\* first exception of its tasks and lets the other tasks run on); in process()
\* the top-level handler, lines 216-223, makes the response
HandlerRaisesAgain(rs) == [pc |-> "raised", response |-> NoResponse]
top_level_handler(rs) == [pc |-> "done", response |-> error_response(rs)]

PropagateException ==
    /\ exec_pc \in {"seq", "gather"}
    /\ \E k \in 1..Len(CurrentGroup) : task[CurrentGroup[k]] = "raised"
    /\ exec_pc' = "raised"
    /\ IF entry = "process"
       THEN /\ pc' = top_level_handler(results).pc
            /\ response' = top_level_handler(results).response
       ELSE /\ pc' = "Raised"
            /\ response' = response
    /\ UNCHANGED << other_vars, config_vars, pov, intent, enriched_entities, plan, step_status,
                    group_pos, cursor, task, step_result, exec_results, dispatch, invocations,
                    result_cache, results,
                    synthesis, recommendations, collaborator_calls >>

(***************************************************************************)
(* process(): synthesis, recommendations, response                         *)
(***************************************************************************)
\* LLMReasoner.synthesize_results, llm_reasoning.py 202-223: the ReasoningResult
\* it returns; an error of the model call is caught there and returned as
\* content
ReasoningResult(success, content) == [success |-> success, content |-> content]
synthesize_results(outcome) ==
    IF outcome = "ok"
    THEN ReasoningResult(TRUE, "synthesis")
    ELSE ReasoningResult(FALSE, "Synthesis failed: str(e)")

\* how the synthesis of lines 165-173 can end: the model call answers, the
\* model call fails, or get_recent_context raises before the call
SynthesisOutcomes ==
    {"ok", "failed"} \cup (IF context_memory THEN {"raised"} ELSE {})

\* lines 171 and 174-175: synthesis after the try block
synthesis_of(outcome) ==
    IF outcome = "raised" THEN None ELSE synthesize_results(outcome).content

\* lines 162-175
Synthesize ==
    /\ pc = "Synthesizing"
    /\ IF llm_available
       THEN \E outcome \in SynthesisOutcomes :
               /\ synthesis' = synthesis_of(outcome)
               /\ collaborator_calls' = [collaborator_calls EXCEPT !.synthesis = outcome]
       ELSE UNCHANGED << synthesis, collaborator_calls >>
    /\ pc' = "Recommending"
    /\ UNCHANGED << other_vars, config_vars, pov, intent, enriched_entities, plan, exec_vars,
                    results, recommendations, response >>

\* the methods class LLMReasoner defines, llm_reasoning.py 107-223
LLMReasonerMethods ==
    {"classify_intent_async", "understand_query", "synthesize_results"}

\* how the call of a method of the LLM reasoner that returns a list can end;
\* a method the class does not define is never run: the attribute lookup
\* raises AttributeError
LLMListOutcomes(method) ==
    IF method \in LLMReasonerMethods THEN {"list", "empty", "raises"} ELSE {"no_method"}

\* how rl_service.get_tool_recommendations can end
RLOutcomes == {"list", "empty", "raises"}

\* lines 179-189: the recommendations after the RL block
rl_recommendations(rl) == IF rl = "list" THEN << "rl" >> ELSE << >>

\* lines 191-201: the recommendations after the LLM block
llm_recommendations(recs, llm) == IF llm = "list" THEN << "llm" >> ELSE recs

\* lines 177-201: the RL recommendations, else the LLM's
Recommend ==
    /\ pc = "Recommending"
    /\ \E rl \in (IF rl_service THEN RLOutcomes ELSE {"not_asked"}) :
          LET recs == rl_recommendations(rl)
          IN  IF recs = << >> /\ llm_available
              THEN \E llm \in LLMListOutcomes("generate_recommendations") :
                      /\ recommendations' = llm_recommendations(recs, llm)
                      /\ collaborator_calls' =
                             [collaborator_calls EXCEPT !.rl = rl, !.llm = llm]
              ELSE /\ recommendations' = recs
                   /\ collaborator_calls' = [collaborator_calls EXCEPT !.rl = rl]
    /\ pc' = "Responding"
    /\ UNCHANGED << other_vars, config_vars, pov, intent, enriched_entities, plan, exec_vars,
                    results, synthesis, response >>

\* lines 203-214
Respond ==
    /\ pc = "Responding"
    /\ response' = OrchestratorResponse(all_success(results), results, synthesis,
                                        recommendations)
    /\ pc' = "done"
    /\ UNCHANGED << other_vars, config_vars, pov, intent, enriched_entities, plan, exec_vars,
                    results, synthesis, recommendations, collaborator_calls >>

(***************************************************************************)
(* ContextMemory and ConversationMemory run on their own                   *)
(***************************************************************************)
SessionIds == {"default", "s2"}

\* a session id _sessions does not hold
NoMemory == [exists |-> FALSE, pov |-> POVState, recent_queries |-> << >>,
             recent_results |-> << >>, entity_focus |-> None, account_focus |-> None,
             last_tool_used |-> None]

\* ConversationMemory(pov=p)
ConversationMemory(p) == [exists |-> TRUE, pov |-> p, recent_queries |-> << >>,
                          recent_results |-> << >>, entity_focus |-> None,
                          account_focus |-> None, last_tool_used |-> None]

\* the ConversationContext row of type pov of a session, and no such row
NoRow == [present |-> FALSE, data |-> << >>, expires_at |-> 0]
Row(data, expires_at) == [present |-> TRUE, data |-> data, expires_at |-> expires_at]

\* TTL_CONFIG["pov"], in seconds
PovTtl == 86400

\* the clock moves in steps of half a TTL, up to MaxTime
TimeStep == PovTtl \div 2
MaxTime == 129600

\* deque.append on a deque with maxlen: a full deque drops its oldest entry
DequeKeepOldest(d, x, maxlen) == IF Len(d) >= maxlen THEN d ELSE Append(d, x)
deque_append(d, x, maxlen) ==
    IF Len(d) >= maxlen THEN Append(Tail(d), x) ELSE Append(d, x)

\* _load_pov at time t: the stored POV of the session when its row has not
\* expired, or POVState() when there is no such row or the store raises
LoadPovUntilExpiry(st, s, store_ok, t) ==
    IF store_ok /\ st.pov[s].present /\ st.pov[s].expires_at >= t /\ st.pov[s].data # << >>
    THEN from_dict(st.pov[s].data)
    ELSE POVState
load_pov(st, s, store_ok, t) ==
    IF store_ok /\ st.pov[s].present /\ st.pov[s].expires_at > t /\ st.pov[s].data # << >>
    THEN from_dict(st.pov[s].data)
    ELSE POVState

\* get_or_create_session: _sessions after the call
GetOrCreateReplaces(ss, st, s, store_ok, t) ==
    [ss EXCEPT ![s] = ConversationMemory(IF ss[s].exists THEN ss[s].pov
                                         ELSE load_pov(st, s, store_ok, t))]
get_or_create_session(ss, st, s, store_ok, t) ==
    IF ss[s].exists THEN ss
    ELSE [ss EXCEPT ![s] = ConversationMemory(load_pov(st, s, store_ok, t))]

\* _save_context(session_id, "pov", data): the store after the call and
\* whether the call raised; an error of the store is caught and dropped
SaveContextPropagates(st, s, data, store_ok, t) ==
    [store |-> IF store_ok THEN [st EXCEPT !.pov[s] = Row(data, t + PovTtl)] ELSE st,
     raised |-> ~store_ok]
save_context(st, s, data, store_ok, t) ==
    [store |-> IF store_ok THEN [st EXCEPT !.pov[s] = Row(data, t + PovTtl)] ELSE st,
     raised |-> FALSE]

\* _cache_result: the ResultCache row of the session and the key replaces
\* the one before; an error of the store is caught and dropped
store_cache_result(st, s, tool_name, store_ok) ==
    IF store_ok THEN [st EXCEPT !.cache = @ \cup {<< s, tool_name >>}] ELSE st

\* set_pov: the memory's pov is replaced by its update, then saved
SetPovSavesBeforeUpdate(ss, st, s, kwargs, load_ok, save_ok, t) ==
    LET ss1 == get_or_create_session(ss, st, s, load_ok, t)
        new_pov == POVUpdate(ss1[s].pov, kwargs)
        saved == save_context(st, s, to_dict(ss1[s].pov), save_ok, t)
    IN  [sessions |-> [ss1 EXCEPT ![s].pov = new_pov],
         store |-> saved.store,
         raised |-> saved.raised]
set_pov(ss, st, s, kwargs, load_ok, save_ok, t) ==
    LET ss1 == get_or_create_session(ss, st, s, load_ok, t)
        new_pov == POVUpdate(ss1[s].pov, kwargs)
        saved == save_context(st, s, to_dict(new_pov), save_ok, t)
    IN  [sessions |-> [ss1 EXCEPT ![s].pov = new_pov],
         store |-> saved.store,
         raised |-> saved.raised]

\* ConversationMemory.add_query and add_result; n tells the entries apart
\* (the query text and the timestamp of the entry)
add_query(m, n) ==
    [m EXCEPT !.recent_queries = deque_append(@, [query |-> n], QueriesMaxLen)]
add_result(m, tool_name, n) ==
    [m EXCEPT !.recent_results = deque_append(@, [tool_name |-> tool_name, n |-> n],
                                              ResultsMaxLen),
              !.last_tool_used = tool_name]

\* update_from_result: the focus fields take the entity and the account of
\* the data of a result
set_focus(m, data) ==
    [m EXCEPT !.entity_focus = IF DictHas(data, "entity") THEN DictGet(data, "entity") ELSE @,
              !.account_focus = IF DictHas(data, "account") THEN DictGet(data, "account") ELSE @]

\* the POV fields the callers of a session have written, and their values
Unwritten == "unwritten"
NothingWritten == [f \in POVFields |-> Unwritten]
WrittenBy(w, kwargs) ==
    [f \in POVFields |-> IF DictHas(kwargs, f) THEN DictGet(kwargs, f) ELSE w[f]]

\* arguments of the calls
SetPovArgs == { << << "years", "FY24" >> >>,
                << << "years", "FY26" >>, << "bogus", "x" >> >> }
MemoryEntities == { << << "year", "FY24" >> >>, << << "note", "x" >> >> }
MemoryTool == "get_dimensions"
StoredRows == {NoRow} \cup {Row(to_dict(POVUpdate(POVState, << << "years", "FY23" >> >>)), e) :
                             e \in {0, PovTtl}}

\* a ContextMemory just constructed over a store that may hold the POV of
\* the default session from an earlier process
InitMemory ==
    /\ sessions = [s \in SessionIds |-> NoMemory]
    /\ \E row \in StoredRows :
          store = [pov |-> [s \in SessionIds |-> IF s = "default" THEN row ELSE NoRow],
                   cache |-> {}]
    /\ written = [s \in SessionIds |-> NothingWritten]
    /\ added = [s \in SessionIds |-> [queries |-> 0, results |-> 0]]
    /\ now = 0
    /\ save_log = [s \in SessionIds |-> "none"]
    /\ last_call = NoCall

\* ConversationMemory objects of two sessions, and a store that holds nothing
InitBuffers ==
    /\ sessions = [s \in SessionIds |-> ConversationMemory(POVState)]
    /\ store = [pov |-> [s \in SessionIds |-> NoRow], cache |-> {}]
    /\ written = [s \in SessionIds |-> NothingWritten]
    /\ added = [s \in SessionIds |-> [queries |-> 0, results |-> 0]]
    /\ now = 0
    /\ save_log = [s \in SessionIds |-> "none"]
    /\ last_call = NoCall

\* a call made at time now, and whether it read the POV row of the session
\* ("none" when the session was in _sessions already, else whether the store
\* answered)
Call(op, s, raised, returned, read) ==
    [op |-> op, session |-> s, raised |-> raised, returned |-> returned, read |-> read,
     at |-> now]
ReadOf(s, load_ok) ==
    IF sessions[s].exists THEN "none" ELSE IF load_ok THEN "ok" ELSE "failed"

\* the saves of a session so far: none, all committed, or one has failed
Logged(log, save_ok) ==
    IF ~save_ok \/ log = "failed" THEN "failed" ELSE "ok"

\* whether the store answers: read only when the session is loaded, and
\* written only when there is something to save
LoadOutcomes(s) == IF sessions[s].exists THEN {TRUE} ELSE BOOLEAN
ResultPovUpdates(data) ==
    ResultUpdatesOf(<< "entity", "account", "period", "years", "scenario",
                       "version", "cost_center", "region" >>, data)
SaveOutcomes(data) == IF ResultPovUpdates(data) # << >> THEN BOOLEAN ELSE {TRUE}

\* ContextMemory.set_pov(session_id, **kwargs)
SetPov(s, kwargs) ==
    /\ sessions # << >>
    /\ \E load_ok \in LoadOutcomes(s), save_ok \in BOOLEAN :
          LET r == set_pov(sessions, store, s, kwargs, load_ok, save_ok, now)
          IN  /\ sessions' = r.sessions
              /\ store' = r.store
              /\ last_call' = Call("set_pov", s, r.raised, POVState, ReadOf(s, load_ok))
              /\ save_log' = [save_log EXCEPT ![s] = Logged(@, save_ok)]
    /\ written' = [written EXCEPT ![s] = WrittenBy(@, kwargs)]
    /\ UNCHANGED << added, now, pov_call, classify_call, adapter_call, plan_runs, late_vars, pipeline_vars >>

\* ContextMemory.get_pov(session_id)
GetPov(s) ==
    /\ sessions # << >>
    /\ \E load_ok \in LoadOutcomes(s) :
          LET ss1 == get_or_create_session(sessions, store, s, load_ok, now)
          IN  /\ sessions' = ss1
              /\ last_call' = Call("get_pov", s, FALSE, ss1[s].pov, ReadOf(s, load_ok))
    /\ UNCHANGED << store, written, added, now, save_log, pov_call, classify_call, adapter_call, plan_runs, late_vars, pipeline_vars >>

\* ContextMemory.update_from_entities(session_id, entities)
UpdateFromEntities(s, entities) ==
    /\ sessions # << >>
    /\ LET pov_updates == PovUpdatesOf(entities, << >>)
       IN  IF pov_updates # << >>
           THEN /\ \E load_ok \in LoadOutcomes(s), save_ok \in BOOLEAN :
                      LET r == set_pov(sessions, store, s, pov_updates, load_ok, save_ok, now)
                      IN  /\ sessions' = r.sessions
                          /\ store' = r.store
                          /\ last_call' = Call("update_from_entities", s, r.raised, POVState,
                                                ReadOf(s, load_ok))
                          /\ save_log' = [save_log EXCEPT ![s] = Logged(@, save_ok)]
                /\ written' = [written EXCEPT ![s] = WrittenBy(@, pov_updates)]
           ELSE /\ last_call' = Call("update_from_entities", s, FALSE, POVState, "none")
                /\ UNCHANGED << sessions, store, written, save_log >>
    /\ UNCHANGED << added, now, pov_call, classify_call, adapter_call, plan_runs, late_vars, pipeline_vars >>

\* ContextMemory.update_from_result(session_id, tool_name, result), for a
\* result whose data is a dict
UpdateFromResult(s, data) ==
    /\ sessions # << >>
    /\ added[s].results < MaxResults
    /\ \E load_ok \in LoadOutcomes(s), save_ok \in SaveOutcomes(data),
          cache_ok \in BOOLEAN :
          LET pov_updates == ResultPovUpdates(data)
              ss1 == get_or_create_session(sessions, store, s, load_ok, now)
              r == IF pov_updates # << >>
                   THEN set_pov(ss1, store, s, pov_updates, load_ok, save_ok, now)
                   ELSE [sessions |-> ss1, store |-> store, raised |-> FALSE]
          IN  /\ sessions' = [r.sessions EXCEPT
                                ![s] = add_result(set_focus(@, data), MemoryTool,
                                                  added[s].results + 1)]
              /\ store' = store_cache_result(r.store, s, MemoryTool, cache_ok)
              /\ last_call' = Call("update_from_result", s, r.raised, POVState,
                                    ReadOf(s, load_ok))
              /\ save_log' = IF pov_updates # << >>
                             THEN [save_log EXCEPT ![s] = Logged(@, save_ok)]
                             ELSE save_log
              /\ written' = [written EXCEPT ![s] = WrittenBy(@, pov_updates)]
    /\ added' = [added EXCEPT ![s].results = @ + 1]
    /\ UNCHANGED << now, pov_call, classify_call, adapter_call, plan_runs, late_vars, pipeline_vars >>

\* the memories set_pov is checked on: a session not accessed yet, a new
\* one, and one that has taken a query and a result with an entity
FrameData == << << "entity", "E100" >>, << "account", "A200" >> >>
FrameMemories ==
    { NoMemory, ConversationMemory(POVState),
      add_result(set_focus(add_query(ConversationMemory(
                     POVUpdate(POVState, ResultPovUpdates(FrameData))), 1), FrameData),
                 MemoryTool, 1) }
FrameArgs == { << << "years", "FY26" >>, << "bogus", "x" >> >>,
               << << "bogus", "x" >> >>,
               << << "account", "A100" >>, << "period", "Q1" >> >> }

\* a ContextMemory that holds any of these memories for its sessions
InitFrame ==
    /\ \E ss \in [SessionIds -> FrameMemories] : sessions = ss
    /\ \E row \in StoredRows :
          store = [pov |-> [s \in SessionIds |-> IF s = "default" THEN row ELSE NoRow],
                   cache |-> {}]
    /\ written = [s \in SessionIds |-> NothingWritten]
    /\ added = [s \in SessionIds |-> [queries |-> Len(sessions[s].recent_queries),
                                       results |-> Len(sessions[s].recent_results)]]
    /\ now = 0
    /\ save_log = [s \in SessionIds |-> "none"]
    /\ last_call = NoCall

\* get_pov(session_id) of a ContextMemory constructed just now over the same
\* store: its _sessions is empty, so the POV is read from the store
FreshGetPov(s) ==
    /\ sessions # << >>
    /\ \E load_ok \in BOOLEAN :
          last_call' = Call("fresh_get_pov", s, FALSE, load_pov(store, s, load_ok, now),
                            IF load_ok THEN "ok" ELSE "failed")
    /\ UNCHANGED << sessions, store, written, added, now, save_log, pov_call, classify_call, adapter_call, plan_runs, late_vars, pipeline_vars >>

\* time passes between two calls
Tick ==
    /\ sessions # << >>
    /\ now + TimeStep <= MaxTime
    /\ now' = now + TimeStep
    /\ UNCHANGED << sessions, store, written, added, save_log, last_call, pov_call, classify_call, adapter_call, plan_runs, late_vars, pipeline_vars >>

\* ConversationMemory.add_query on the memory of session s
AddQuery(s) ==
    /\ sessions # << >>
    /\ sessions[s].exists
    /\ added[s].queries < MaxQueries
    /\ sessions' = [sessions EXCEPT ![s] = add_query(@, added[s].queries + 1)]
    /\ added' = [added EXCEPT ![s].queries = @ + 1]
    /\ UNCHANGED << store, written, now, save_log, last_call, pov_call, classify_call, adapter_call, plan_runs, late_vars, pipeline_vars >>

\* ConversationMemory.add_result on the memory of session s
AddResult(s) ==
    /\ sessions # << >>
    /\ sessions[s].exists
    /\ added[s].results < MaxResults
    /\ sessions' = [sessions EXCEPT ![s] = add_result(@, MemoryTool, added[s].results + 1)]
    /\ added' = [added EXCEPT ![s].results = @ + 1]
    /\ UNCHANGED << store, written, now, save_log, last_call, pov_call, classify_call, adapter_call, plan_runs, late_vars, pipeline_vars >>

(***************************************************************************)
(* POVState.update run on its own                                          *)
(***************************************************************************)
\* the POVState objects update is called on
Receivers ==
    { POVUpdate(POVState, << << "years", y >>, << "account", a >>, << "entity", e >> >>) :
        y \in {"FY25", "FY24"}, a \in {None, "A100"}, e \in {"E501", "E100"} }

\* the keyword arguments of the call: fields of the POV and a key that is none
UpdateKeys == {"years", "account", "bogus"}
UpdateValues == {"FY26", None}
UpdateArgs ==
    UNION { { [i \in 1..Len(ks) |-> << ks[i], vs[i] >>] : vs \in [1..Len(ks) -> UpdateValues] }
            : ks \in DistinctSeqs(UpdateKeys, Cardinality(UpdateKeys)) }

InitPovUpdate ==
    \E p \in Receivers, kw \in UpdateArgs :
        pov_call = [stage |-> "calling", receiver |-> p, kwargs |-> kw,
                    receiver_after |-> p, result |-> POVState, again |-> POVState]

\* receiver.update(**kwargs): the receiver is read by to_dict and not written
Update ==
    /\ pov_call.stage = "calling"
    /\ pov_call' = [pov_call EXCEPT !.stage = "updated",
                                    !.receiver_after = from_dict(to_dict(pov_call.receiver)),
                                    !.result = POVUpdate(pov_call.receiver, pov_call.kwargs)]
    /\ UNCHANGED << memory_vars, classify_call, adapter_call, plan_runs, late_vars, pipeline_vars >>

\* result.update(**kwargs) with the same arguments
UpdateAgain ==
    /\ pov_call.stage = "updated"
    /\ pov_call' = [pov_call EXCEPT !.stage = "again",
                                    !.again = POVUpdate(pov_call.result, pov_call.kwargs)]
    /\ UNCHANGED << memory_vars, classify_call, adapter_call, plan_runs, late_vars, pipeline_vars >>

(***************************************************************************)
(* intent_classifier.py: PlanningIntentClassifier.classify                 *)
(***************************************************************************)
\* the keys of INTENT_CONFIG, in the order of the dict
IntentOrder == << "data_retrieval", "dimension_exploration", "business_rule",
                  "job_management", "variance_analysis", "data_management",
                  "substitution_variables", "document_management" >>
IntentTypes == Range(IntentOrder)

\* INTENT_CONFIG: how many patterns, keywords and negative keywords an intent
\* type has, and its tools
INTENT_CONFIG ==
    [t \in IntentTypes |->
        CASE t = "data_retrieval" ->
                [patterns |-> 5, keywords |-> 15, negative_keywords |-> 6,
                 tools |-> << "smart_retrieve", "smart_retrieve_revenue",
                              "smart_retrieve_monthly", "export_data_slice" >>]
          [] t = "dimension_exploration" ->
                [patterns |-> 4, keywords |-> 12, negative_keywords |-> 4,
                 tools |-> << "get_dimensions", "get_members", "get_member" >>]
          [] t = "business_rule" ->
                [patterns |-> 2, keywords |-> 7, negative_keywords |-> 1,
                 tools |-> << "execute_job" >>]
          [] t = "job_management" ->
                [patterns |-> 4, keywords |-> 10, negative_keywords |-> 1,
                 tools |-> << "list_jobs", "get_job_status" >>]
          [] t = "variance_analysis" ->
                [patterns |-> 4, keywords |-> 12, negative_keywords |-> 0,
                 tools |-> << "smart_retrieve_variance", "smart_retrieve" >>]
          [] t = "data_management" ->
                [patterns |-> 3, keywords |-> 7, negative_keywords |-> 0,
                 tools |-> << "copy_data", "clear_data" >>]
          [] t = "substitution_variables" ->
                [patterns |-> 3, keywords |-> 5, negative_keywords |-> 0,
                 tools |-> << "get_substitution_variables", "set_substitution_variable" >>]
          [] OTHER ->
                [patterns |-> 2, keywords |-> 4, negative_keywords |-> 0,
                 tools |-> << "get_documents" >>]]

\* relevance_map of _calculate_entity_relevance
relevance_map(t) ==
    CASE t = "data_retrieval" -> {"account", "entity", "period", "year", "scenario"}
      [] t = "dimension_exploration" -> {"entity", "account", "cost_center", "region"}
      [] t = "job_management" -> {"job_id"}
      [] t = "variance_analysis" -> {"scenario", "period", "year", "account"}
      [] t = "data_management" -> {"scenario", "period", "year"}
      [] OTHER -> {}

Min(a, b) == IF a < b THEN a ELSE b
Max(a, b) == IF a > b THEN a ELSE b

\* the square root of x / Scale^2 in hundredths, rounded down
Sqrt(x) == CHOOSE r \in 0..(10 * Scale) : r * r <= x /\ (r + 1) * (r + 1) > x

\* _calculate_pattern_score: min(1.0, (matches / len(patterns)) ** 0.5)
calculate_pattern_score(matches, patterns) ==
    IF patterns = 0 THEN 0
    ELSE Min(Scale, Sqrt((matches * Scale * Scale) \div patterns))

\* _calculate_keyword_score: max(0.0, min(1.0, positive / len(keywords))
\*                                    - min(0.5, negative * 0.15))
KeywordScoreUnclamped(positive, keywords, negative) ==
    IF keywords = 0 THEN 0
    ELSE Min(Scale, (positive * Scale) \div keywords)
         - Min(Scale \div 2, (negative * 15 * Scale) \div 100)
calculate_keyword_score(positive, keywords, negative) ==
    IF keywords = 0 THEN 0
    ELSE Max(0, Min(Scale, (positive * Scale) \div keywords)
                - Min(Scale \div 2, (negative * 15 * Scale) \div 100))

\* _calculate_entity_relevance: matches / len(relevant_types)
calculate_entity_relevance(entities, t) ==
    IF relevance_map(t) = {} THEN 0
    ELSE (Cardinality(relevance_map(t) \cap entities) * Scale) \div Cardinality(relevance_map(t))

\* _score_intents: the three scores with weights 0.50, 0.30 and 0.20; the
\* total is kept in units of 1 / (100 * Scale)
score_intents(hits, entities) ==
    [t \in IntentTypes |->
        [pattern |-> calculate_pattern_score(hits[t].patterns, INTENT_CONFIG[t].patterns),
         keyword |-> calculate_keyword_score(hits[t].keywords, INTENT_CONFIG[t].keywords,
                                             hits[t].negative_keywords),
         entity |-> calculate_entity_relevance(entities, t)]]
total_score(sc) == sc.pattern * 50 + sc.keyword * 30 + sc.entity * 20

\* max(intent_scores.items(), key=...): the first key with the greatest score
best_intent(scores) ==
    IntentOrder[CHOOSE i \in 1..Len(IntentOrder) :
                   /\ \A j \in 1..Len(IntentOrder) :
                         total_score(scores[IntentOrder[j]]) <= total_score(scores[IntentOrder[i]])
                   /\ \A j \in 1..(i - 1) :
                         total_score(scores[IntentOrder[j]]) < total_score(scores[IntentOrder[i]])]

\* best_score < 0.3
low_confidence(score) == score < 30 * Scale

\* the Intent classify returns, or the exception it raises
Intent(name, confidence, entities, suggested_tools, scores) ==
    [raised |-> FALSE, name |-> name, confidence |-> confidence, entities |-> entities,
     suggested_tools |-> suggested_tools, scores |-> scores]
Raised(scores) ==
    [raised |-> TRUE, name |-> None, confidence |-> 0, entities |-> {},
     suggested_tools |-> << >>, scores |-> scores]

\* _classify_with_llm: without a reasoner the unknown intent, else what the
\* reasoner's classify_intent returns; an LLMReasoner has no such method
classify_with_llm(entities, scores, llm_reasoner) ==
    IF ~llm_reasoner
    THEN Intent("unknown", 0, entities, << "get_application_info" >>, scores)
    ELSE IF "classify_intent" \in LLMReasonerMethods
         THEN Intent("unknown", 0, entities, << >>, scores)
         ELSE Raised(scores)

\* classify, lines 267-290; the query is given by what the patterns and
\* keywords of every intent type find in it and the entity types extracted
classify(hits, entities, use_llm, llm_reasoner) ==
    LET scores == score_intents(hits, entities)
        best == best_intent(scores)
        best_score == total_score(scores[best])
    IN  IF low_confidence(best_score) /\ use_llm /\ llm_reasoner
        THEN classify_with_llm(entities, scores, llm_reasoner)
        ELSE Intent(best, best_score, entities, INTENT_CONFIG[best].tools, scores)

\* what a query holds for an intent type
Hits(p, k, n) == [patterns |-> p, keywords |-> k, negative_keywords |-> n]
NoHits == Hits(0, 0, 0)

\* queries: what they hold for data retrieval and for dimension exploration
\* (nothing for the other intent types), and the entity types found in them
QueryHits ==
    { [t \in IntentTypes |->
          IF t = "data_retrieval" THEN a
          ELSE IF t = "dimension_exploration" THEN b
          ELSE NoHits] :
        a \in {Hits(p, k, n) : p \in {0, 1, 5}, k \in {0, 1, 15}, n \in {0, 1, 6}},
        b \in {Hits(p, k, n) : p \in {0, 2, 4}, k \in {0, 12}, n \in {0, 4}} }
QueryEntities == { {}, {"entity"}, {"account", "entity", "period", "year", "scenario"} }

InitClassify ==
    \E h \in QueryHits, e \in QueryEntities, llm \in BOOLEAN, reasoner \in BOOLEAN :
        classify_call = [stage |-> "calling", use_llm |-> llm, llm_reasoner |-> reasoner,
                         hits |-> h, entities |-> e, result |-> << >>]

\* classify(query)
Classified ==
    /\ classify_call.stage = "calling"
    /\ classify_call' =
          [classify_call EXCEPT
              !.stage = "returned",
              !.result = classify(classify_call.hits, classify_call.entities,
                                  classify_call.use_llm, classify_call.llm_reasoner)]
    /\ UNCHANGED << memory_vars, pov_call, adapter_call, plan_runs, late_vars, pipeline_vars >>

(***************************************************************************)
(* claude_adapter.py and adk_adapter.py: the tool catalog and plan          *)
(***************************************************************************)
\* a JSON schema: its "type" ("" when the key is missing) and its
\* "properties", a list of (name, type) pairs; the empty dict has neither
Schema(type, properties) == [type |-> type, properties |-> properties]
EmptySchema == Schema("", << >>)

\* a catalog entry: the keys it has and their values
Tool(keys, name, description, inputSchema) ==
    [keys |-> keys, name |-> name, description |-> description, inputSchema |-> inputSchema]

\* tool.get(key, default)
Get(tool, key, default) == IF key \in tool.keys THEN tool[key] ELSE default

\* a JSON-schema "type": a name, or a list of names (a union)
TypeName(name) == [list |-> FALSE, name |-> name, members |-> << >>]
TypeUnion(members) == [list |-> TRUE, name |-> "", members |-> members]

\* non_null_types = [t for t in json_type if t != "null"]
non_null_types(members) == SelectSeq(members, LAMBDA t : t # "null")

\* type_mapping.get(json_type, str) of _convert_json_schema_to_claude_type
claude_type_mapping(json_type) ==
    CASE json_type = "string" -> "str"
      [] json_type = "number" -> "float"
      [] json_type = "integer" -> "int"
      [] json_type = "boolean" -> "bool"
      [] json_type = "array" -> "list"
      [] json_type = "object" -> "dict"
      [] OTHER -> "str"

\* _convert_json_schema_to_claude_type: a list stands for its first member
\* that is not "null", or gives str when it has none
ClaudeTypeOfFirstMember(json_type) ==
    IF json_type.list
    THEN IF json_type.members # << >>
         THEN claude_type_mapping(json_type.members[1])
         ELSE "str"
    ELSE claude_type_mapping(json_type.name)
convert_json_schema_to_claude_type(json_type) ==
    IF json_type.list
    THEN IF non_null_types(json_type.members) # << >>
         THEN claude_type_mapping(non_null_types(json_type.members)[1])
         ELSE "str"
    ELSE claude_type_mapping(json_type.name)

\* type_mapping.get(json_type, "STRING") of _convert_json_schema_type
gemini_type_mapping(json_type) ==
    CASE json_type = "string" -> "STRING"
      [] json_type = "number" -> "NUMBER"
      [] json_type = "integer" -> "INTEGER"
      [] json_type = "boolean" -> "BOOLEAN"
      [] json_type = "array" -> "ARRAY"
      [] json_type = "object" -> "OBJECT"
      [] OTHER -> "STRING"

\* _convert_json_schema_type: a list stands for its first member that is not
\* "null", or gives "STRING" when it has none
convert_json_schema_type(json_type) ==
    IF json_type.list
    THEN IF non_null_types(json_type.members) # << >>
         THEN gemini_type_mapping(non_null_types(json_type.members)[1])
         ELSE "STRING"
    ELSE gemini_type_mapping(json_type.name)

\* _build_tool_input_schema: a Python type for every property of an object
build_tool_input_schema(input_schema) ==
    IF input_schema = EmptySchema \/ input_schema.type # "object"
    THEN << >>
    ELSE [i \in 1..Len(input_schema.properties) |->
             << input_schema.properties[i][1],
                convert_json_schema_to_claude_type(input_schema.properties[i][2]) >>]

\* _convert_schema_to_gemini: the type and the properties in Gemini's names
convert_schema_to_gemini(schema) ==
    IF schema = EmptySchema
    THEN EmptySchema
    ELSE Schema(IF schema.type = "" THEN ""
                ELSE convert_json_schema_type(TypeName(schema.type)),
                IF schema.type = "object"
                THEN [i \in 1..Len(schema.properties) |->
                         << schema.properties[i][1],
                            convert_json_schema_type(schema.properties[i][2]) >>]
                ELSE << >>)

\* "if not name: continue"
HasName(tool) == Get(tool, "name", "") # ""

\* _tool_catalog_to_claude_tools
ClaudeToolsKeepUnnamed(tool_catalog) ==
    [i \in 1..Len(tool_catalog) |->
        [name |-> Get(tool_catalog[i], "name", ""),
         description |-> Get(tool_catalog[i], "description", ""),
         schema |-> build_tool_input_schema(Get(tool_catalog[i], "inputSchema", EmptySchema)),
         raw_schema |-> Get(tool_catalog[i], "inputSchema", EmptySchema)]]
tool_catalog_to_claude_tools(tool_catalog) ==
    LET named == SelectSeq(tool_catalog, HasName)
    IN  [i \in 1..Len(named) |->
            [name |-> Get(named[i], "name", ""),
             description |-> Get(named[i], "description", ""),
             schema |-> build_tool_input_schema(Get(named[i], "inputSchema", EmptySchema)),
             raw_schema |-> Get(named[i], "inputSchema", EmptySchema)]]

\* _tool_catalog_to_function_declarations; a declaration has "parameters"
\* only for an object schema whose conversion is not empty
tool_catalog_to_function_declarations(tool_catalog) ==
    LET named == SelectSeq(tool_catalog, HasName)
        input_schema(i) == Get(named[i], "inputSchema", EmptySchema)
        has_parameters(i) ==
            /\ input_schema(i) # EmptySchema
            /\ input_schema(i).type = "object"
            /\ convert_schema_to_gemini(input_schema(i)) # EmptySchema
    IN  [i \in 1..Len(named) |->
            [keys |-> {"name", "description"}
                        \cup (IF has_parameters(i) THEN {"parameters"} ELSE {}),
             name |-> Get(named[i], "name", ""),
             description |-> Get(named[i], "description", ""),
             parameters |-> IF has_parameters(i)
                            THEN convert_schema_to_gemini(input_schema(i))
                            ELSE EmptySchema]]

Adapters == {"claude", "adk"}

\* the conversion an adapter uses
convert_catalog(adapter, tool_catalog) ==
    IF adapter = "claude"
    THEN tool_catalog_to_claude_tools(tool_catalog)
    ELSE tool_catalog_to_function_declarations(tool_catalog)

\* AdapterPlan(query=, steps=, notes=); notes is the list of the pieces of the string
AdapterPlan(query, steps, notes) == [query |-> query, steps |-> steps, notes |-> notes]
AdapterPlanStep(tool_name, rationale) == [tool_name |-> tool_name, rationale |-> rationale]

\* what plan gives back: a Plan, or an exception
Returns(p) == [raised |-> FALSE, plan |-> p]
Raises == [raised |-> TRUE, plan |-> AdapterPlan("", << >>, << >>)]

\* a string given by its pieces is empty when all its pieces are
IsEmptyString(pieces) == \A i \in 1..Len(pieces) : pieces[i] = ""

\* the parts of a model response: text, a function call, or both (Gemini)
Part(text, function_call) == [text |-> text, function_call |-> function_call]
TextPart == Part("I will get the members", "")
CallPart == Part("", "get_members")
BothPart == Part("calling", "smart_retrieve")

\* the rationale_parts collected up to part i
rationale_parts(content, i) ==
    LET texts == SelectSeq(SubSeq(content, 1, i), LAMBDA part : part.text # "")
    IN  [j \in 1..Len(texts) |-> texts[j].text]

\* lines 222-244 / 234-270: the steps and notes read from the response
parse_response(adapter, query, content) ==
    LET calls == {i \in 1..Len(content) : content[i].function_call # ""}
        nth(k) == CHOOSE i \in calls : Cardinality({j \in calls : j <= i}) = k
        default_rationale ==
            IF adapter = "claude" THEN << "Claude tool selection" >>
                                  ELSE << "Gemini function call" >>
        steps == [k \in 1..Cardinality(calls) |->
                     AdapterPlanStep(content[nth(k)].function_call,
                              IF rationale_parts(content, nth(k)) # << >>
                              THEN rationale_parts(content, nth(k))
                              ELSE default_rationale)]
        all_parts == rationale_parts(content, Len(content))
    IN  AdapterPlan(query, steps,
             IF all_parts # << >> /\ steps = << >>
             THEN << "no_function_calls: " >> \o all_parts
             ELSE IF adapter = "claude" THEN << "claude_function_calling" >>
                                        ELSE << "gemini_function_calling" >>)

\* what the SDK and the model do in a call: the import fails, the call
\* throws, or the model answers
Outcome(kind, message, content) == [kind |-> kind, message |-> message, content |-> content]
ModelOutcomes ==
    { Outcome("import_error", "No module named 'anthropic'", << >>),
      Outcome("raises", "", << >>),
      Outcome("raises", "rate limit exceeded", << >>),
      Outcome("responds", "", << >>),
      Outcome("responds", "", << TextPart >>),
      Outcome("responds", "", << CallPart >>),
      Outcome("responds", "", << TextPart, CallPart >>) }

\* a Gemini part may carry text and a function call at once
GeminiOutcomes == { Outcome("responds", "", << BothPart >>) }

\* the notes of the unavailable adapter
unavailable_notes(adapter) ==
    IF adapter = "claude"
    THEN << "Claude SDK planning unavailable: missing API key or claude_agent_sdk module" >>
    ELSE << "ADK planning unavailable: missing API key or google.genai module" >>

\* "if not self.api_key"
NoApiKey(api_key) == api_key = None \/ api_key = ""

\* ClaudeAdapter.plan, AdkAdapter.plan
PlanWithoutHandler(adapter, api_key, sdk_available, query, tool_catalog, outcome) ==
    IF NoApiKey(api_key) \/ ~sdk_available
    THEN Returns(AdapterPlan(query, << >>, unavailable_notes(adapter)))
    ELSE IF outcome.kind = "import_error"
    THEN Raises
    ELSE IF convert_catalog(adapter, tool_catalog) = << >>
    THEN Returns(AdapterPlan(query, << >>, << "No valid tools in catalog" >>))
    ELSE IF outcome.kind = "raises"
    THEN Raises
    ELSE Returns(parse_response(adapter, query, outcome.content))
adapter_plan(adapter, api_key, sdk_available, query, tool_catalog, outcome) ==
    IF NoApiKey(api_key) \/ ~sdk_available
    THEN Returns(AdapterPlan(query, << >>, unavailable_notes(adapter)))
    ELSE IF outcome.kind = "import_error"
    THEN Returns(AdapterPlan(query, << >>, << "planning_error: ", outcome.message >>))
    ELSE IF convert_catalog(adapter, tool_catalog) = << >>
    THEN Returns(AdapterPlan(query, << >>, << "No valid tools in catalog" >>))
    ELSE IF outcome.kind = "raises"
    THEN Returns(AdapterPlan(query, << >>, << "planning_error: ", outcome.message >>))
    ELSE Returns(parse_response(adapter, query, outcome.content))

\* catalog entries: with every key, with a name only, without a name, with an
\* empty name, and a second entry of the same name
ToolEntries ==
    { Tool({"name", "description", "inputSchema"}, "get_members", "Get dimension members",
           Schema("object", << << "dimension", TypeName("string") >>,
                              << "limit", TypeUnion(<< "null", "integer" >>) >> >>)),
      Tool({"name"}, "smart_retrieve", "", EmptySchema),
      Tool({"description", "inputSchema"}, "", "No name tool", Schema("object", << >>)),
      Tool({"name", "description"}, "", "Empty name", EmptySchema),
      Tool({"name", "description", "inputSchema"}, "get_members", "Again",
           Schema("string", << >>)) }

\* catalogs of up to MaxCatalog entries
Catalogs == UNION { [1..n -> ToolEntries] : n \in 0..MaxCatalog }

ApiKeys == {None, "", "test-key"}
Queries == {"", "test query"}

InitAdapters ==
    \E a \in Adapters, k \in ApiKeys, sdk \in BOOLEAN, q \in Queries, c \in Catalogs :
    \E o \in ModelOutcomes \cup (IF a = "adk" THEN GeminiOutcomes ELSE {}) :
        adapter_call = [stage |-> "calling", adapter |-> a, api_key |-> k,
                        sdk_available |-> sdk, query |-> q, tool_catalog |-> c,
                        outcome |-> o, result |-> Raises, converted |-> << >>]

\* await adapter.plan(query, tool_catalog)
PlanCall ==
    /\ adapter_call.stage = "calling"
    /\ adapter_call' =
          [adapter_call EXCEPT
              !.stage = "returned",
              !.result = adapter_plan(adapter_call.adapter, adapter_call.api_key,
                              adapter_call.sdk_available, adapter_call.query,
                              adapter_call.tool_catalog, adapter_call.outcome)]
    /\ UNCHANGED << memory_vars, pov_call, classify_call, plan_runs, late_vars, pipeline_vars >>

\* _tool_catalog_to_claude_tools(tool_catalog) or
\* _tool_catalog_to_function_declarations(tool_catalog), called by itself
ConvertCall ==
    /\ adapter_call.stage = "calling"
    /\ adapter_call' =
          [adapter_call EXCEPT
              !.stage = "converted",
              !.converted = convert_catalog(adapter_call.adapter, adapter_call.tool_catalog)]
    /\ UNCHANGED << memory_vars, pov_call, classify_call, plan_runs, late_vars, pipeline_vars >>

\* the "type" values the conversions are given: the six known names, other
\* names, and unions of up to MaxUnion members
KnownTypeNames == {"string", "number", "integer", "boolean", "array", "object"}
TypeNames == KnownTypeNames \cup {"null", "unknown", ""}
UnionMembers == {"null", "string", "integer", "unknown"}
JsonTypes ==
    {TypeName(n) : n \in TypeNames}
    \cup UNION { {TypeUnion(m) : m \in [1..n -> UnionMembers]} : n \in 0..MaxUnion }

InitTypes ==
    \E a \in Adapters, t \in JsonTypes :
        adapter_call = [stage |-> "converting", adapter |-> a, json_type |-> t, result |-> ""]

\* _convert_json_schema_to_claude_type(json_type) or
\* _convert_json_schema_type(json_type)
ConvertTypeCall ==
    /\ adapter_call.stage = "converting"
    /\ adapter_call' =
          [adapter_call EXCEPT
              !.stage = "type_returned",
              !.result = IF adapter_call.adapter = "claude"
                         THEN convert_json_schema_to_claude_type(adapter_call.json_type)
                         ELSE convert_json_schema_type(adapter_call.json_type)]
    /\ UNCHANGED << memory_vars, pov_call, classify_call, plan_runs, late_vars, pipeline_vars >>

(***************************************************************************)
(* _execute_plan as a function of the plan, the handlers, the outcome of   *)
(* every tool call and the configuration (no context memory)               *)
(***************************************************************************)
\* the result _execute_step returns for step i: lines 321-326 without a
\* handler, lines 350-363 with the outcome of the tool call
step_result_of(steps, handlers, outcomes, i) ==
    [step |-> i, tool_name |-> steps[i].tool_name,
     status |-> IF steps[i].tool_name \notin Range(handlers) THEN "error"
                ELSE result_status(outcomes[i]),
     data |-> << >>]

\* lines 277-283: the sequential branch from position k of the group on
RECURSIVE SequentialLoop(_, _, _, _, _, _)
SequentialLoop(steps, handlers, outcomes, idxs, k, rs) ==
    IF k > Len(idxs) THEN rs
    ELSE LET result == step_result_of(steps, handlers, outcomes, idxs[k])
         IN  IF sequential_break(result, steps[idxs[k]])
             THEN Append(rs, result)
             ELSE SequentialLoop(steps, handlers, outcomes, idxs, k + 1, Append(rs, result))

\* lines 268-274: gather returns the results of the tasks in the order of
\* the steps
gather(steps, handlers, outcomes, idxs) ==
    [k \in 1..Len(idxs) |-> step_result_of(steps, handlers, outcomes, idxs[k])]

\* lines 263-287: the loop over the groups from position g on
RECURSIVE GroupLoop(_, _, _, _, _, _)
GroupLoop(steps, handlers, outcomes, parallel, g, rs) ==
    IF g > Len(sorted_groups(steps)) THEN rs
    ELSE LET idxs == group_steps(steps, sorted_groups(steps)[g])
             after == IF use_gather(parallel, idxs)
                      THEN rs \o gather(steps, handlers, outcomes, idxs)
                      ELSE SequentialLoop(steps, handlers, outcomes, idxs, 1, rs)
         IN  IF should_stop(after, steps, idxs) THEN after
             ELSE GroupLoop(steps, handlers, outcomes, parallel, g + 1, after)

\* _execute_plan, lines 248-289: the results list
execute_plan(steps, handlers, outcomes, parallel) ==
    GroupLoop(steps, handlers, outcomes, parallel, 1, << >>)

\* what a run leaves: the steps dispatched (each has returned a result), the
\* results list, and the success flag process() makes of it (line 206)
PlanRun(rs) == [dispatched |-> {rs[k].step : k \in 1..Len(rs)}, results |-> rs,
                success |-> all_success(rs)]

\* a plan and an outcome for every tool call
InitRuns ==
    \E p \in DirectPlans :
        \E o \in [1..Len(p) -> ToolOutcomes] :
            plan_runs = [stage |-> "calling", steps |-> p, outcomes |-> o,
                         parallel |-> PlanRun(<< >>), sequential |-> PlanRun(<< >>)]

\* _execute_plan(plan) with enable_parallel_execution true and with it false
RunBoth ==
    /\ plan_runs.stage = "calling"
    /\ plan_runs' =
          [plan_runs EXCEPT
              !.stage = "returned",
              !.parallel = PlanRun(execute_plan(plan_runs.steps, DirectHandlers,
                                                plan_runs.outcomes, TRUE)),
              !.sequential = PlanRun(execute_plan(plan_runs.steps, DirectHandlers,
                                                  plan_runs.outcomes, FALSE))]
    /\ UNCHANGED << memory_vars, pov_call, classify_call, adapter_call, late_vars, pipeline_vars >>

(***************************************************************************)
(* orchestrator.py: _classify_intent, the classification stage             *)
(***************************************************************************)
\* the Intent dataclass, with its confidence in hundredths
ClassifiedIntent(name, intent_type, confidence, entities, suggested_tools, sub_intent) ==
    [name |-> name, intent_type |-> intent_type, confidence |-> confidence,
     entities |-> entities, suggested_tools |-> suggested_tools, sub_intent |-> sub_intent]

\* the names of the sub_intents INTENT_CONFIG registers for an intent type
sub_intents(t) ==
    CASE t = "data_retrieval" -> {"single_value", "time_series", "revenue_breakdown"}
      [] t = "dimension_exploration" -> {"list_all", "hierarchy", "search"}
      [] t = "business_rule" -> {"run"}
      [] t = "job_management" -> {"status", "list"}
      [] t = "variance_analysis" -> {"actual_vs_forecast", "yoy"}
      [] t = "data_management" -> {"copy", "clear"}
      [] OTHER -> {}

\* classify, lines 278-290: the Intent of the rule-based classification for
\* the best intent type, its score and the sub-intent _detect_sub_intent found
rule_intent(best_intent_type, best_score, entities, sub_intent) ==
    ClassifiedIntent(best_intent_type, best_intent_type, best_score, entities,
                     INTENT_CONFIG[best_intent_type].tools, sub_intent)

\* LLMReasoner._map_intent_type
map_intent_type(intent_name) ==
    IF intent_name \in IntentTypes \cup {"reporting", "metadata_validation"}
    THEN intent_name ELSE "unknown"

\* classify_intent_async, lines 161-173: the Intent made of the model's
\* answer; entities is {**entities, **result.get("entities", {})}
llm_intent(answer, entities) ==
    ClassifiedIntent(answer.intent, map_intent_type(answer.intent), answer.confidence,
                     DictUpdate(entities, answer.entities), answer.suggested_tools,
                     answer.sub_intent)

\* OrchestratorConfig.confidence_threshold, in hundredths
confidence_threshold == 70

\* lines 238-242: the LLM intent is merged into the rule-based one
AdoptedOnEqualConfidence(rule, llm_intent_data) ==
    IF llm_intent_data.confidence >= rule.confidence
    THEN [rule EXCEPT !.name = llm_intent_data.name,
                      !.confidence = llm_intent_data.confidence,
                      !.entities = DictUpdate(rule.entities, llm_intent_data.entities),
                      !.suggested_tools = llm_intent_data.suggested_tools]
    ELSE rule
merge_llm_intent(rule, llm_intent_data) ==
    IF llm_intent_data.confidence > rule.confidence
    THEN [rule EXCEPT !.name = llm_intent_data.name,
                      !.confidence = llm_intent_data.confidence,
                      !.entities = DictUpdate(rule.entities, llm_intent_data.entities),
                      !.suggested_tools = llm_intent_data.suggested_tools]
    ELSE rule

\* _classify_intent, lines 225-246: rule is what classify returned,
\* available is llm_reasoner and llm_reasoner.is_available, outcome is how
\* the try block ends: get_recent_context or the LLM call raises, or the
\* call returns an Intent
classify_intent(rule, available, outcome) ==
    IF rule.confidence < confidence_threshold /\ available /\ outcome.kind = "intent"
    THEN merge_llm_intent(rule, llm_intent(outcome.answer, rule.entities))
    ELSE rule

\* the model's answers and the outcomes of the try block
LlmAnswer(name, confidence, entities, tools, sub) ==
    [intent |-> name, confidence |-> confidence, entities |-> entities,
     suggested_tools |-> tools, sub_intent |-> sub]
NoAnswer == LlmAnswer(None, 0, << >>, << >>, None)
LlmOutcomes ==
    { [kind |-> "context_raises", answer |-> NoAnswer],
      [kind |-> "llm_raises", answer |-> NoAnswer] }
    \cup { [kind |-> "intent", answer |-> LlmAnswer(n, c, e, t, None)] :
              n \in {"data_retrieval", "variance_analysis", "forecasting"},
              c \in {50, 90},
              e \in { << >>, << << "entity", "E200" >> >>, << << "period", "Q1" >> >> },
              t \in { << "smart_retrieve_variance" >> } }

\* what classify hands on: an intent type, its score, the entities and the
\* sub-intent found (one registered for the type, or none)
RuleIntents ==
    UNION { { rule_intent(t, c, e, sub) :
                c \in {20, 50, 70, 90},
                e \in { << >>, << << "entity", "E100" >> >> },
                sub \in {None} \cup {CHOOSE x \in sub_intents(t) : TRUE} }
            : t \in {"data_retrieval", "variance_analysis"} }

InitOrchClassify ==
    \E i \in RuleIntents, a \in BOOLEAN, o \in LlmOutcomes :
        classify_call = [stage |-> "classifying", rule |-> i, available |-> a,
                         outcome |-> o, result |-> i]

\* _classify_intent(query, session_id)
ClassifyIntent ==
    /\ classify_call.stage = "classifying"
    /\ classify_call' =
          [classify_call EXCEPT
              !.stage = "classified",
              !.result = classify_intent(classify_call.rule, classify_call.available,
                                         classify_call.outcome)]
    /\ UNCHANGED << memory_vars, pov_call, adapter_call, plan_runs, late_vars, pipeline_vars >>

(***************************************************************************)
(* Specifications                                                          *)
(***************************************************************************)
Next ==
    \/ Classify
    \/ Enrich
    \/ Plan
    \/ EnterGroup
    \/ \E i \in 1..MaxSteps : BeginStep(i)
    \/ \E i \in 1..MaxSteps : FinishStep(i)
    \/ CollectSequential
    \/ CollectGather
    \/ CheckGroup
    \/ ReturnResults
    \/ PropagateException
    \/ Synthesize
    \/ Recommend
    \/ Respond

Spec == Init /\ [][Next]_vars

\* Termination is checked on fewer calls: queries without entities, and
\* direct plans of at most LiveSteps steps.  Every call made returns or
\* raises and the event loop runs what is ready: weak fairness of Next.
LiveQueries == {q \in ProcessQueries : q.entities = << >>}
LivePlans == {pl \in DirectPlans : Len(pl) <= LiveSteps}
InitLive ==
    \/ ProcessCall(LiveQueries, ProcessHandlers, ProcessConfigs, ResultData)
    \/ ExecuteCall(LivePlans, DirectHandlers, DirectConfigs, ResultData)

\* process() and _execute_plan on runs in which parameters and results carry
\* POV fields
SpecDispatch == InitDispatch /\ [][Next]_vars

\* process() on the plans of the planner: no group of such a plan holds two
\* steps, so the results of a group are never collected from gather
NextAgentic ==
    \/ Classify
    \/ Enrich
    \/ Plan
    \/ EnterGroup
    \/ \E i \in 1..MaxSteps : BeginStep(i)
    \/ \E i \in 1..MaxSteps : FinishStep(i)
    \/ CollectSequential
    \/ CheckGroup
    \/ ReturnResults
    \/ PropagateException
    \/ Synthesize
    \/ Recommend
    \/ Respond

SpecAgentic == InitAgentic /\ [][NextAgentic]_vars

FairSpec == InitLive /\ [][Next]_vars /\ WF_vars(Next)

NextPlan == CreatePlan

SpecPlan == InitPlan /\ [][NextPlan]_vars

\* a ContextMemory and its callers; tool results arrive for the default session
NextMemory ==
    \/ \E s \in SessionIds, kwargs \in SetPovArgs : SetPov(s, kwargs)
    \/ \E s \in SessionIds : GetPov(s)
    \/ \E s \in SessionIds, entities \in MemoryEntities : UpdateFromEntities(s, entities)
    \/ \E data \in ResultData : UpdateFromResult("default", data)

InitMemoryCalls ==
    IdlePipeline /\ IdleLate /\ InitMemory /\ pov_call = NoPovCall /\ classify_call = NoClassifyCall
    /\ adapter_call = NoAdapterCall
    /\ plan_runs = NoPlanRuns

SpecMemory == InitMemoryCalls /\ [][NextMemory]_vars

\* the calls on one session while time passes, and the reads of a
\* ContextMemory constructed later over the same store
NextExpiry ==
    \/ \E kwargs \in SetPovArgs : SetPov("default", kwargs)
    \/ GetPov("default")
    \/ \E entities \in MemoryEntities : UpdateFromEntities("default", entities)
    \/ \E data \in ResultData : UpdateFromResult("default", data)
    \/ FreshGetPov("default")
    \/ Tick

InitExpiryCalls == InitMemoryCalls

SpecExpiry == InitExpiryCalls /\ [][NextExpiry]_vars

\* set_pov on the default session, next to the memory of another session
NextFrame == \E kwargs \in FrameArgs : SetPov("default", kwargs)

InitFrameCalls ==
    IdlePipeline /\ IdleLate /\ InitFrame /\ pov_call = NoPovCall
    /\ classify_call = NoClassifyCall /\ adapter_call = NoAdapterCall
    /\ plan_runs = NoPlanRuns

SpecFrame == InitFrameCalls /\ [][NextFrame]_vars

\* the buffers of the ConversationMemory of two sessions
NextBuffers ==
    \/ \E s \in SessionIds : AddQuery(s)
    \/ \E s \in SessionIds : AddResult(s)
    \/ \E s \in SessionIds : UpdateFromResult(s, << >>)

InitBufferCalls ==
    IdlePipeline /\ IdleLate /\ InitBuffers /\ pov_call = NoPovCall /\ classify_call = NoClassifyCall
    /\ adapter_call = NoAdapterCall
    /\ plan_runs = NoPlanRuns

SpecBuffers == InitBufferCalls /\ [][NextBuffers]_vars

\* classify
NextClassify == Classified

InitClassifyCalls ==
    IdlePipeline /\ IdleLate /\ IdleMemory /\ pov_call = NoPovCall /\ InitClassify
    /\ adapter_call = NoAdapterCall
    /\ plan_runs = NoPlanRuns

SpecClassify == InitClassifyCalls /\ [][NextClassify]_vars

\* the adapters
NextAdapters == PlanCall \/ ConvertCall

InitAdapterCalls ==
    IdlePipeline /\ IdleLate /\ IdleMemory /\ pov_call = NoPovCall /\ classify_call = NoClassifyCall
    /\ InitAdapters
    /\ plan_runs = NoPlanRuns

SpecAdapters == InitAdapterCalls /\ [][NextAdapters]_vars

\* the type conversions of the adapters
NextTypes == ConvertTypeCall

InitTypeCalls ==
    IdlePipeline /\ IdleLate /\ IdleMemory /\ pov_call = NoPovCall /\ classify_call = NoClassifyCall
    /\ InitTypes
    /\ plan_runs = NoPlanRuns

SpecTypes == InitTypeCalls /\ [][NextTypes]_vars

\* _execute_plan under both configurations
NextRuns == RunBoth

InitRunCalls ==
    IdlePipeline /\ IdleLate /\ IdleMemory /\ pov_call = NoPovCall /\ classify_call = NoClassifyCall
    /\ adapter_call = NoAdapterCall
    /\ InitRuns

SpecRuns == InitRunCalls /\ [][NextRuns]_vars

\* _classify_intent
NextOrchClassify == ClassifyIntent

InitOrchClassifyCalls ==
    IdlePipeline /\ IdleLate /\ IdleMemory /\ pov_call = NoPovCall /\ adapter_call = NoAdapterCall
    /\ plan_runs = NoPlanRuns
    /\ InitOrchClassify

SpecOrchClassify == InitOrchClassifyCalls /\ [][NextOrchClassify]_vars

\* POVState.update
NextPovUpdate == Update \/ UpdateAgain

InitPovUpdateCalls ==
    IdlePipeline /\ IdleLate /\ IdleMemory /\ InitPovUpdate /\ classify_call = NoClassifyCall
    /\ adapter_call = NoAdapterCall
    /\ plan_runs = NoPlanRuns

SpecPovUpdate == InitPovUpdateCalls /\ [][NextPovUpdate]_vars

(***************************************************************************)
(* context_memory.py: get_or_create_session called by several threads      *)
(***************************************************************************)
MaxThreads == 3
MaxCalls == 2
Threads == 1..MaxThreads

\* no ConversationMemory object, and no thread
NoObject == 0
NoThread == 0

\* threading.RLock.acquire by thread t: the lock is free or t holds it
AcquireUnlocked(lock, t) == TRUE
acquire(lock, t) == lock \in {NoThread, t}

\* a ContextMemory just constructed, and threads about to call
\* get_or_create_session with the same session id
InitAccess ==
    first_access = [stage |-> "running",
                    lock |-> NoThread,
                    in_sessions |-> NoObject,
                    created |-> 0,
                    hydrated |-> 0,
                    former |-> {},
                    pc |-> [t \in Threads |-> "idle"],
                    memory |-> [t \in Threads |-> NoObject],
                    calls |-> [t \in Threads |-> 0],
                    got |-> [t \in Threads |-> NoObject]]

AccessStep(t, from, to) ==
    /\ first_access.stage = "running"
    /\ first_access.pc[t] = from
    /\ UNCHANGED << memory_vars, pov_call, classify_call, adapter_call, plan_runs,
                    initialization, traversal, pipeline_vars >>

\* with self._lock:
EnterLock(t) ==
    /\ AccessStep(t, "idle", "check")
    /\ first_access.calls[t] < MaxCalls
    /\ acquire(first_access.lock, t)
    /\ first_access' = [first_access EXCEPT !.lock = t, !.pc[t] = "check"]

\* if session_id not in self._sessions:
CheckSession(t) ==
    /\ AccessStep(t, "check", "load")
    /\ first_access' = [first_access EXCEPT
                          !.pc[t] = IF first_access.in_sessions = NoObject
                                    THEN "load" ELSE "return"]

\* pov = self._load_pov(session_id)
LoadPov(t) ==
    /\ AccessStep(t, "load", "create")
    /\ first_access' = [first_access EXCEPT !.hydrated = @ + 1, !.pc[t] = "create"]

\* memory = ConversationMemory(pov=pov)
CreateMemory(t) ==
    /\ AccessStep(t, "create", "store")
    /\ first_access' = [first_access EXCEPT !.created = @ + 1,
                                            !.memory[t] = first_access.created + 1,
                                            !.pc[t] = "store"]

\* self._sessions[session_id] = memory
StoreMemory(t) ==
    /\ AccessStep(t, "store", "return")
    /\ first_access' = [first_access EXCEPT
                          !.former = IF first_access.in_sessions = NoObject
                                     THEN @ ELSE @ \cup {first_access.in_sessions},
                          !.in_sessions = first_access.memory[t],
                          !.pc[t] = "return"]

\* return self._sessions[session_id], which leaves the with block
ReturnMemory(t) ==
    /\ AccessStep(t, "return", "idle")
    /\ first_access' = [first_access EXCEPT
                          !.got[t] = first_access.in_sessions,
                          !.lock = IF @ = t THEN NoThread ELSE @,
                          !.calls[t] = @ + 1,
                          !.pc[t] = "idle"]

NextAccess ==
    \E t \in Threads :
        \/ EnterLock(t)
        \/ CheckSession(t)
        \/ LoadPov(t)
        \/ CreateMemory(t)
        \/ StoreMemory(t)
        \/ ReturnMemory(t)

InitAccessCalls ==
    IdlePipeline /\ IdleMemory /\ pov_call = NoPovCall /\ classify_call = NoClassifyCall
    /\ adapter_call = NoAdapterCall /\ plan_runs = NoPlanRuns
    /\ initialization = NoInitialization /\ traversal = NoTraversal
    /\ InitAccess

SpecAccess == InitAccessCalls /\ [][NextAccess]_vars

(***************************************************************************)
(* runtime.py: ensure_initialized awaited by several coroutines            *)
(***************************************************************************)
MaxCallers == 2
MaxInitCalls == 2
Callers == 1..MaxCallers

\* the second test of _initialized, made while holding _init_lock
SkipSecondCheck(flag) == FALSE
initialized_under_lock(flag) == flag

\* the module just imported: _initialized = False, _init_lock free
InitInitialization ==
    initialization = [stage |-> "running",
                      initialized |-> FALSE,
                      lock |-> NoThread,
                      pc |-> [c \in Callers |-> "idle"],
                      calls |-> [c \in Callers |-> 0],
                      invoked |-> 0,
                      completed |-> 0,
                      invoked_after_completion |-> FALSE]

InitializationStep(c, from) ==
    /\ initialization.stage = "running"
    /\ initialization.pc[c] = from
    /\ UNCHANGED << memory_vars, pov_call, classify_call, adapter_call, plan_runs,
                    first_access, traversal, pipeline_vars >>

\* the body of the async with block, up to the first await inside
\* initialize_agent or to the return
UnderLock(c) ==
    IF initialized_under_lock(initialization.initialized)
    THEN [initialization EXCEPT !.pc[c] = "returned", !.calls[c] = @ + 1]
    ELSE [initialization EXCEPT
            !.lock = c,
            !.pc[c] = "initializing",
            !.invoked = @ + 1,
            !.invoked_after_completion = @ \/ initialization.completed > 0]

\* await ensure_initialized(), up to its first suspension: the return on the
\* flag, the wait for the lock, or the call of initialize_agent
CallEnsureInitialized(c) ==
    /\ InitializationStep(c, "idle")
    /\ initialization.calls[c] < MaxInitCalls
    /\ initialization' =
          IF initialization.initialized
          THEN [initialization EXCEPT !.pc[c] = "returned", !.calls[c] = @ + 1]
          ELSE IF initialization.lock # NoThread
          THEN [initialization EXCEPT !.pc[c] = "waiting"]
          ELSE UnderLock(c)

\* the lock is released and the waiting coroutine acquires it
AcquireInitLock(c) ==
    /\ InitializationStep(c, "waiting")
    /\ initialization.lock = NoThread
    /\ initialization' = UnderLock(c)

\* initialize_agent returns: _initialized = True, and the lock is released
InitializeAgentReturns(c) ==
    /\ InitializationStep(c, "initializing")
    /\ initialization' = [initialization EXCEPT !.initialized = TRUE,
                                                !.completed = @ + 1,
                                                !.lock = NoThread,
                                                !.pc[c] = "returned",
                                                !.calls[c] = @ + 1]

\* initialize_agent raises: the lock is released and the exception leaves
\* ensure_initialized
InitializeAgentRaises(c) ==
    /\ InitializationStep(c, "initializing")
    /\ initialization' = [initialization EXCEPT !.lock = NoThread,
                                                !.pc[c] = "raised",
                                                !.calls[c] = @ + 1]

\* the caller goes on after the call, and may call again
AfterEnsureInitialized(c) ==
    /\ initialization.stage = "running"
    /\ initialization.pc[c] \in {"returned", "raised"}
    /\ initialization' = [initialization EXCEPT !.pc[c] = "idle"]
    /\ UNCHANGED << memory_vars, pov_call, classify_call, adapter_call, plan_runs,
                    first_access, traversal, pipeline_vars >>

NextInitialization ==
    \E c \in Callers :
        \/ CallEnsureInitialized(c)
        \/ AcquireInitLock(c)
        \/ InitializeAgentReturns(c)
        \/ InitializeAgentRaises(c)
        \/ AfterEnsureInitialized(c)

InitInitializationCalls ==
    IdlePipeline /\ IdleMemory /\ pov_call = NoPovCall /\ classify_call = NoClassifyCall
    /\ adapter_call = NoAdapterCall /\ plan_runs = NoPlanRuns
    /\ first_access = NoAccess /\ traversal = NoTraversal
    /\ InitInitialization

SpecInitialization == InitInitializationCalls /\ [][NextInitialization]_vars

(***************************************************************************)
(* utils/metadata_cache.py: traversals of the stored hierarchy             *)
(***************************************************************************)
\* the members of one dimension, in the order the rows are fetched, and the
\* name of the dimension (the parent of its top members)
MemberOrder == << "A", "B", "C" >>
Members == Range(MemberOrder)
Dimension == "Entity"

\* the parent column of the rows (UNIQUE(dimension, member_name)): a member,
\* the dimension, or no parent
ParentMaps == [Members -> Members \cup {Dimension, None}]

\* the lists of a traversal are kept up to MaxWalk entries (a traversal of a
\* hierarchy without a cycle puts each member on a list at most once), and
\* the passes of a while loop are counted modulo two
MaxWalk == 3
Kept(list) == Prefix(list, MaxWalk)

\* SELECT member_name FROM members WHERE dimension = ? AND parent = ?
children_of(parent_map, current) ==
    SelectSeq(MemberOrder, LAMBDA m : parent_map[m] = current)

\* whether the walk towards the root goes on from current
goes_on(parent_map, current) == parent_map[current] \notin {None, Dimension}

\* a call of get_level, get_ancestors or _get_all_descendants on a member of
\* a stored parent relation
InitTraversal ==
    \E op \in {"get_level", "get_ancestors", "_get_all_descendants"},
       parent_map \in ParentMaps, member \in Members :
        traversal = [stage |-> "running", op |-> op, parent_map |-> parent_map,
                     member |-> member, current |-> member, visited |-> {},
                     level |-> 0, found |-> << >>, passes |-> 0,
                     to_process |-> IF op = "_get_all_descendants"
                                    THEN << member >> ELSE << >>]

TraversalStep(op) ==
    /\ traversal.stage = "running"
    /\ traversal.op = op
    /\ UNCHANGED << memory_vars, pov_call, classify_call, adapter_call, plan_runs,
                    first_access, initialization, pipeline_vars >>

\* get_level(member_name, visited): one call of the recursion
GetLevel ==
    /\ TraversalStep("get_level")
    /\ traversal' =
          IF traversal.current \in traversal.visited
          THEN [traversal EXCEPT !.stage = "returned"]
          ELSE IF ~goes_on(traversal.parent_map, traversal.current)
          THEN [traversal EXCEPT !.stage = "returned",
                                 !.visited = @ \cup {traversal.current}]
          ELSE [traversal EXCEPT !.visited = @ \cup {traversal.current},
                                 !.level = @ + 1,
                                 !.current = traversal.parent_map[traversal.current]]

\* get_ancestors: one pass of the while loop
GetAncestors ==
    /\ TraversalStep("get_ancestors")
    /\ traversal' =
          IF goes_on(traversal.parent_map, traversal.current)
          THEN [traversal EXCEPT
                  !.passes = (@ + 1) % 2,
                  !.found = Kept(Append(@, traversal.parent_map[traversal.current])),
                  !.current = traversal.parent_map[traversal.current]]
          ELSE [traversal EXCEPT !.stage = "returned"]

\* _get_all_descendants: one pass of the while loop, or the return when
\* to_process is empty
GetAllDescendants ==
    /\ TraversalStep("_get_all_descendants")
    /\ traversal' =
          IF traversal.to_process = << >>
          THEN [traversal EXCEPT !.stage = "returned"]
          ELSE LET current == Head(traversal.to_process)
                   children == children_of(traversal.parent_map, current)
               IN  [traversal EXCEPT
                      !.passes = (@ + 1) % 2,
                      !.current = current,
                      !.found = Kept(@ \o children),
                      !.to_process = Kept(Tail(@) \o children)]

NextTraversal == GetLevel \/ GetAncestors \/ GetAllDescendants

InitTraversalCalls ==
    IdlePipeline /\ IdleMemory /\ pov_call = NoPovCall /\ classify_call = NoClassifyCall
    /\ adapter_call = NoAdapterCall /\ plan_runs = NoPlanRuns
    /\ first_access = NoAccess /\ initialization = NoInitialization
    /\ InitTraversal

\* a traversal is a loop of synchronous code: it takes its next step
FairTraversal == InitTraversalCalls /\ [][NextTraversal]_vars /\ WF_vars(NextTraversal)

(***************************************************************************)
(* Properties                                                              *)
(***************************************************************************)
\* _execute_step has started to run for step i
Dispatched(i) == task[i] \in {"awaiting", "done", "raised"}
Terminal(i) == step_status[i] \in {"completed", "failed"}
Mandatory(i) == ~plan[i].optional
Executed == task # << >>
HasResult(i) == step_result[i] # NoResult
ResultsOf(r) == Range(r.results)

\* C1: no step of a later parallel_group is dispatched until every mandatory
\* step of an earlier group has reached a terminal status (completed or failed).
C1_GroupsInOrder ==
    Executed =>
        \A i, j \in 1..Len(plan) :
            (/\ plan[i].parallel_group < plan[j].parallel_group
             /\ Mandatory(i)
             /\ Dispatched(j)) => Terminal(i)

\* C2: once a mandatory step's result has status error, no step of a later
\* parallel_group is dispatched.
C2_MandatoryErrorHalts ==
    Executed =>
        \A i, j \in 1..Len(plan) :
            (/\ HasResult(i)
             /\ step_result[i].status = "error"
             /\ Mandatory(i)
             /\ plan[i].parallel_group < plan[j].parallel_group) => ~Dispatched(j)

\* C3: when the tool executor returned status error for the step that is the
\* only step of the first group and is mandatory, in a plan of several groups,
\* no step of a later group is dispatched, and the response has success false
\* and exactly one result.
SoleMandatoryFirstStepFailed ==
    /\ Executed
    /\ Len(Groups) > 1
    /\ LET first == group_steps(plan, Groups[1])
       IN  /\ Len(first) = 1
           /\ Mandatory(first[1])
           /\ step_status[first[1]] = "failed"
           /\ HasResult(first[1])
           /\ step_result[first[1]].status = "error"

C3_SoleMandatoryFailure ==
    SoleMandatoryFirstStepFailed =>
        /\ \A j \in 1..Len(plan) :
              plan[j].parallel_group > Groups[1] => ~Dispatched(j)
        /\ response.returned => (~response.success /\ Len(response.results) = 1)

C3_Witness ==
    /\ SoleMandatoryFirstStepFailed
    /\ response.returned
    /\ Len(response.results) = 1

\* C4: a response built after the plan was executed has success true exactly
\* when every step of the plan has status completed.
C4_SuccessIffAllCompleted ==
    (response.returned /\ response.has_plan) =>
        (response.success <=> \A i \in 1..Len(plan) : step_status[i] = "completed")

C4_Witness ==
    /\ response.returned
    /\ response.has_plan
    /\ ~response.success
    /\ \E i, j \in 1..Len(plan) : step_status[i] = "completed" /\ step_status[j] = "pending"

\* C5: a response with success false carries the result of every step that
\* was dispatched and returned one, also when the failure is an exception
\* caught by the top-level handler.
C5_PartialResultsReturned ==
    (response.returned /\ ~response.success) =>
        \A i \in 1..Len(plan) : HasResult(i) => step_result[i] \in ResultsOf(response)

\* C6: the response has an error_explanation exactly when the plan had no
\* steps or an exception reached the top-level handler.
C6_ErrorExplanation ==
    response.returned =>
        (response.error_explanation # None <=> (plan = << >> \/ exec_pc = "raised"))

C6_Witness ==
    /\ response.returned
    /\ exec_pc = "raised"
    /\ response.error_explanation # None

\* C7: every process() call ends with a response (Completed or Failed); it
\* neither raises nor runs forever.
Completed == response.returned /\ response.success
Failed == response.returned /\ ~response.success

C7_ProcessTerminates == <>(entry = "process" => (Completed \/ Failed))

\* an exception left _execute_plan after a step had completed, and process()
\* returned a response all the same
C7_Witness ==
    /\ entry = "process"
    /\ pc = "done"
    /\ Failed
    /\ \E i, j \in 1..Len(plan) : step_status[i] = "completed" /\ task[j] = "raised"

\* C8: after enrichment every key extracted with a non-empty value keeps its
\* extracted value, and a key of the enriched map with another value than the
\* extracted one was absent or empty among the extracted entities.
Enriched == entry = "process" /\ pc \notin {"Classifying", "Enriching"}

C8_ExtractedTakePrecedence ==
    Enriched =>
        /\ \A k \in DictKeys(intent.entities) :
              Truthy(DictGet(intent.entities, k)) =>
                  /\ DictHas(enriched_entities, k)
                  /\ DictGet(enriched_entities, k) = DictGet(intent.entities, k)
        /\ \A k \in DictKeys(enriched_entities) :
              \/ ~DictHas(intent.entities, k)
              \/ ~Truthy(DictGet(intent.entities, k))
              \/ DictGet(enriched_entities, k) = DictGet(intent.entities, k)

C8_Witness ==
    /\ Enriched
    /\ context_memory
    /\ DictHas(intent.entities, "years")
    /\ DictHas(intent.entities, "year")
    /\ DictHas(enriched_entities, "years")
    /\ DictGet(intent.entities, "years") = "FY24"
    /\ DictGet(intent.entities, "year") = "FY26"
    /\ DictGet(enriched_entities, "years") = "FY24"
    /\ DictHas(enriched_entities, "entity")

\* C9: the plan create_plan returns has at least one step, also for an empty
\* available_tools list.
C9_PlanNeverEmpty == pc = "Planned" => Len(plan) >= 1

C9_Witness == pc = "Planned" /\ tool_handlers = << >> /\ Len(plan) = 1

\* C10: in the plan create_plan returns the step ids increase strictly in
\* list order, and every id in a step's depends_on is the id of an earlier step.
C10_IdsAndDependencies ==
    pc = "Planned" =>
        /\ \A i, j \in 1..Len(plan) : i < j => plan[i].id < plan[j].id
        /\ \A i \in 1..Len(plan) :
              \A d \in Range(plan[i].depends_on) :
                  \E j \in 1..(i - 1) : plan[j].id = d

C10_Witness ==
    /\ pc = "Planned"
    /\ Len(plan) >= 2
    /\ plan[2].depends_on = << plan[1].id >>

\* C11: a step that has a handler and whose _execute_step call was made and
\* did not raise before the tool call has had execute_tool called exactly
\* once, also when a result of the same tool is cached and also after the
\* call failed; no step has it called more than once, and a step without a
\* handler never.
C11_InvokedExactlyOnce ==
    Executed =>
        \A i \in 1..Len(plan) :
            /\ invocations[i] <= 1
            /\ (task[i] \in {"awaiting", "done"} /\ plan[i].tool_name \in Range(tool_handlers))
                  => invocations[i] = 1
            /\ plan[i].tool_name \notin Range(tool_handlers) => invocations[i] = 0

\* a second step of a tool was run although the first step's result was
\* cached, the second call failed, and the plan was left with one call each
C11_Witness ==
    /\ Executed
    /\ exec_pc = "returned"
    /\ \E i, j \in 1..Len(plan) :
          /\ i < j
          /\ plan[i].tool_name = plan[j].tool_name
          /\ plan[j].tool_name \in result_cache
          /\ step_status[i] = "completed"
          /\ step_status[j] = "failed"
          /\ invocations[i] = 1
          /\ invocations[j] = 1

\* C12: when the synthesis of the LLM failed (the model call failed, or the
\* attempt raised), the response has synthesis None, and success and results
\* as the executed plan gave them.
C12_SynthesisFailureOmitted ==
    (response.returned /\ response.has_plan
     /\ collaborator_calls.synthesis \in {"failed", "raised"}) =>
        /\ response.synthesis = None
        /\ response.success = all_success(exec_results)
        /\ response.results = exec_results

\* C13: in a response built after the plan was executed, a non-empty list of
\* the RL collaborator is the recommendations and the LLM is not asked; when
\* the RL collaborator is absent, raised or returned an empty list and the LLM
\* is available, the LLM collaborator is asked for recommendations and the
\* list it generates is the recommendations.
C13_RecommendationFallback ==
    (response.returned /\ response.has_plan) =>
        /\ collaborator_calls.rl = "list" =>
              /\ response.recommendations = << "rl" >>
              /\ collaborator_calls.llm = "not_asked"
        /\ (collaborator_calls.rl \in {"not_asked", "raises", "empty"} /\ llm_available) =>
              /\ collaborator_calls.llm \in {"list", "empty", "raises"}
              /\ collaborator_calls.llm = "list" => response.recommendations = << "llm" >>

\* C14: no call of set_pov, update_from_entities, update_from_result or
\* get_pov raises, whether the store raises or not; the POV in memory holds
\* every field its callers wrote with the value written last; and get_pov
\* returns such a POV.
C14_PersistenceErrorsSwallowed ==
    (sessions # << >>) =>
        /\ ~last_call.raised
        /\ \A s \in SessionIds, f \in POVFields :
              (sessions[s].exists /\ written[s][f] # Unwritten) =>
                  sessions[s].pov[f] = written[s][f]
        /\ last_call.op = "get_pov" =>
              \A f \in POVFields :
                  written[last_call.session][f] # Unwritten =>
                      last_call.returned[f] = written[last_call.session][f]

\* get_pov returned the year written although the store holds no row of the
\* session: saving it had failed
C14_Witness ==
    /\ sessions # << >>
    /\ last_call.op = "get_pov"
    /\ written[last_call.session]["years"] = "FY24"
    /\ last_call.returned["years"] = "FY24"
    /\ ~store.pov[last_call.session].present

\* the entries of a buffer that has had n entries added and holds at most cap
LastAdded(n, cap) ==
    LET k == IF n < cap THEN n ELSE cap
    IN  [i \in 1..k |-> n - k + i]

\* C15: recent_queries holds at most 10 entries and recent_results at most 5,
\* and each holds the entries added last, in the order they were added.
C15_BuffersBounded ==
    (sessions # << >>) =>
        \A s \in SessionIds :
            LET q == sessions[s].recent_queries
                r == sessions[s].recent_results
            IN  /\ Len(q) <= 10
                /\ Len(r) <= 5
                /\ [i \in 1..Len(q) |-> q[i].query] = LastAdded(added[s].queries, 10)
                /\ [i \in 1..Len(r) |-> r[i].n] = LastAdded(added[s].results, 5)

C15_Witness ==
    /\ sessions # << >>
    /\ \E s \in SessionIds :
          /\ added[s].queries > 10
          /\ added[s].results > 5
          /\ Len(sessions[s].recent_queries) = 10
          /\ Len(sessions[s].recent_results) = 5
          /\ sessions[s].recent_queries[1].query = added[s].queries - 9

\* C16: POVState.update leaves the fields of its receiver as they were, the
\* fields it is not given keep the receiver's values in the result, and the
\* same update of the result gives the result again.
C16_UpdatePure ==
    /\ pov_call.stage \in {"updated", "again"} =>
          /\ pov_call.receiver_after = pov_call.receiver
          /\ \A f \in POVFields :
                ~DictHas(pov_call.kwargs, f) => pov_call.result[f] = pov_call.receiver[f]
    /\ pov_call.stage = "again" => pov_call.again = pov_call.result

C16_Witness ==
    /\ pov_call.stage = "again"
    /\ pov_call.receiver["years"] = "FY24"
    /\ pov_call.receiver["account"] = "A100"
    /\ DictHas(pov_call.kwargs, "account")
    /\ DictHas(pov_call.kwargs, "bogus")
    /\ pov_call.result["account"] = None
    /\ pov_call.result["years"] = "FY24"
    /\ pov_call.result # pov_call.receiver

\* C17: classify without an LLM collaborator does not raise, and when the
\* best score is below 0.3 (as for the empty query) it returns an intent named
\* unknown with no suggested tools.
C17_UnknownOnLowConfidence ==
    (classify_call.stage = "returned" /\ ~classify_call.llm_reasoner) =>
        /\ ~classify_call.result.raised
        /\ low_confidence(total_score(
               classify_call.result.scores[best_intent(classify_call.result.scores)])) =>
              /\ classify_call.result.name = "unknown"
              /\ classify_call.result.suggested_tools = << >>

\* C18: the Intent classify returns has a confidence between 0 and 1, each of
\* the pattern, keyword and entity scores it is made of lies between 0 and 1,
\* and it is their sum with the weights 0.50, 0.30 and 0.20.
C18_ConfidenceInUnitInterval ==
    (classify_call.stage = "returned" /\ ~classify_call.result.raised) =>
        /\ classify_call.result.confidence >= 0
        /\ classify_call.result.confidence <= 100 * Scale
        /\ \A t \in IntentTypes :
              LET sc == classify_call.result.scores[t]
              IN  /\ sc.pattern \in 0..Scale
                  /\ sc.keyword \in 0..Scale
                  /\ sc.entity \in 0..Scale
        /\ classify_call.result.name \in IntentTypes =>
              classify_call.result.confidence =
                  LET sc == classify_call.result.scores[classify_call.result.name]
                  IN  50 * sc.pattern + 30 * sc.keyword + 20 * sc.entity

\* every pattern, keyword and entity of data retrieval found: confidence 1;
\* and the empty query: confidence 0
C18_Witness ==
    /\ classify_call.stage = "returned"
    /\ ~classify_call.result.raised
    /\ classify_call.result.name = "data_retrieval"
    /\ \/ /\ classify_call.hits["data_retrieval"] = Hits(5, 15, 0)
          /\ classify_call.result.confidence = 100 * Scale
       \/ /\ classify_call.hits["data_retrieval"] = Hits(0, 1, 6)
          /\ classify_call.result.confidence = 0

\* C19: plan of either adapter never raises; when the API key is missing, the
\* SDK module is unavailable, the catalog has no named tool or the model call
\* throws, it returns a Plan for the same query with no steps and notes that
\* are not empty.
C19_PlanNeverRaises ==
    adapter_call.stage = "returned" =>
        /\ ~adapter_call.result.raised
        /\ ( \/ NoApiKey(adapter_call.api_key)
             \/ ~adapter_call.sdk_available
             \/ \A i \in 1..Len(adapter_call.tool_catalog) :
                   ~HasName(adapter_call.tool_catalog[i])
             \/ adapter_call.outcome.kind \in {"import_error", "raises"} ) =>
              /\ adapter_call.result.plan.query = adapter_call.query
              /\ adapter_call.result.plan.steps = << >>
              /\ ~IsEmptyString(adapter_call.result.plan.notes)

\* the model call throws with an empty message for an adapter with key, SDK
\* and a named tool
C19_Witness ==
    /\ adapter_call.stage = "returned"
    /\ adapter_call.adapter = "adk"
    /\ adapter_call.api_key = "test-key"
    /\ adapter_call.sdk_available
    /\ \E i \in 1..Len(adapter_call.tool_catalog) : HasName(adapter_call.tool_catalog[i])
    /\ adapter_call.outcome = Outcome("raises", "", << >>)
    /\ adapter_call.result.plan.steps = << >>

\* C20: converting a tool catalog gives one entry for every catalog entry with
\* a name that is not empty, in the order of the catalog, with the name and
\* the description of that entry; the entries without a name are dropped and
\* no other.
C20_NamedEntriesConverted ==
    adapter_call.stage = "converted" =>
        LET catalog == adapter_call.tool_catalog
            out == adapter_call.converted
            named == {i \in 1..Len(catalog) :
                         "name" \in catalog[i].keys /\ catalog[i].name # ""}
            before(i) == Cardinality({j \in named : j < i})
        IN  /\ Len(out) = Cardinality(named)
            /\ \A i \in named :
                  /\ out[before(i) + 1].name = catalog[i].name
                  /\ out[before(i) + 1].description =
                        (IF "description" \in catalog[i].keys
                         THEN catalog[i].description ELSE "")

\* an entry without a name is dropped, the named entry after it is kept
C20_Witness ==
    /\ adapter_call.stage = "converted"
    /\ Len(adapter_call.tool_catalog) = MaxCatalog
    /\ ~HasName(adapter_call.tool_catalog[1])
    /\ HasName(adapter_call.tool_catalog[MaxCatalog])
    /\ Len(adapter_call.converted) = MaxCatalog - 1

\* the target types of the six known names
ClaudeTargets == [string |-> "str", number |-> "float", integer |-> "int",
                  boolean |-> "bool", array |-> "list", object |-> "dict"]
GeminiTargets == [string |-> "STRING", number |-> "NUMBER", integer |-> "INTEGER",
                  boolean |-> "BOOLEAN", array |-> "ARRAY", object |-> "OBJECT"]
TargetOf(adapter, name) ==
    LET targets == IF adapter = "claude" THEN ClaudeTargets ELSE GeminiTargets
    IN  IF name \in DOMAIN targets THEN targets[name] ELSE targets["string"]

\* C21: the JSON-schema type conversion of either adapter gives a result for
\* every type: a known name gives its target type, any other name the string
\* type, and a union what its first member other than "null" gives (the
\* string type when it has no such member).
C21_TypeConversionTotal ==
    adapter_call.stage = "type_returned" =>
        LET t == adapter_call.json_type
            others == {i \in 1..Len(t.members) : t.members[i] # "null"}
        IN  adapter_call.result =
               IF ~t.list THEN TargetOf(adapter_call.adapter, t.name)
               ELSE IF others = {} THEN TargetOf(adapter_call.adapter, "string")
               ELSE TargetOf(adapter_call.adapter,
                             t.members[CHOOSE i \in others : \A j \in others : i <= j])

\* the union ["null", "integer"] gives the integer type
C21_Witness ==
    /\ adapter_call.stage = "type_returned"
    /\ adapter_call.json_type = TypeUnion(<< "null", "integer" >>)
    /\ adapter_call.result \in {"int", "INTEGER"}

\* C22: a step is dispatched only after every step its depends_on lists has
\* status completed; a step with a dependency that failed or never ran is not
\* dispatched.
C22_DependenciesCompleted ==
    Executed =>
        \A i \in 1..Len(plan) :
            Dispatched(i) =>
                \A k \in 1..Len(plan[i].depends_on) :
                    step_status[plan[i].depends_on[k]] = "completed"

\* _execute_step got past the reading of the context memory for step j
Sent(j) == task[j] \in {"awaiting", "done"}

\* step j is of the wave after the wave of step i
NextWave(i, j) ==
    /\ plan[i].parallel_group < plan[j].parallel_group
    /\ \A m \in 1..Len(plan) :
          ~(plan[i].parallel_group < plan[m].parallel_group
              /\ plan[m].parallel_group < plan[j].parallel_group)

ResultFields == {"entity", "account", "period", "years", "scenario", "version",
                 "cost_center", "region"}

\* step i returned a success result whose data carries field k
Carries(i, k) ==
    /\ step_result[i].status = "success"
    /\ k \in ResultFields
    /\ DictHas(step_result[i].data, k)

\* C23 as stated: when a step of wave N completes with status success and its
\* data carries a POV field, every step of wave N+1 is dispatched on a POV
\* that holds that value, and derives its suggested parameters from it
C23_EveryWaveResultInPov ==
    (Executed /\ context_memory) =>
        \A i, j \in 1..Len(plan) :
            (Sent(j) /\ NextWave(i, j)) =>
                /\ \A k \in ResultFields :
                      Carries(i, k) => dispatch[j].pov[k] = DictGet(step_result[i].data, k)
                /\ dispatch[j].suggested =
                       get_suggested_params(dispatch[j].pov, plan[j].tool_name)

\* step i is another step of the wave of step j
SameWave(i, j) == i # j /\ plan[i].parallel_group = plan[j].parallel_group

\* C23: when steps of wave N complete with status success and their data
\* carry a POV field, every step of wave N+1 is dispatched on a POV that
\* holds, for that field, a value carried by one of these steps or by a
\* step of wave N+1 that completed before, and derives its suggested
\* parameters from the POV it is dispatched on
C23_WaveResultsReachPov ==
    (Executed /\ context_memory) =>
        \A j \in 1..Len(plan) :
            Sent(j) =>
                /\ \A k \in ResultFields :
                      (\E i \in 1..Len(plan) : NextWave(i, j) /\ Carries(i, k)) =>
                          \E i \in 1..Len(plan) :
                              /\ NextWave(i, j) \/ SameWave(i, j)
                              /\ Carries(i, k)
                              /\ dispatch[j].pov[k] = DictGet(step_result[i].data, k)
                /\ dispatch[j].suggested =
                       get_suggested_params(dispatch[j].pov, plan[j].tool_name)

C23_Witness ==
    /\ Executed
    /\ context_memory
    /\ \E i, j \in 1..Len(plan) :
          /\ Sent(j)
          /\ NextWave(i, j)
          /\ Carries(i, "entity")
          /\ DictGet(step_result[i].data, "entity") = "E200"
          /\ dispatch[j].pov["entity"] = "E200"
          /\ DictHas(dispatch[j].suggested, "entity")
          /\ DictGet(dispatch[j].suggested, "entity") = "E200"

\* the parameter k of step i holds a value found in the user's query
Extracted(i, k) ==
    /\ DictHas(plan[i].parameters, k)
    /\ Truthy(DictGet(plan[i].parameters, k))
    /\ DictGet(plan[i].parameters, k) \notin PlaceholderValues
    /\ \E e \in 1..Len(user_query.entities) :
          /\ entity_to_param(user_query.entities[e][1]) = k
          /\ user_query.entities[e][2] = DictGet(plan[i].parameters, k)

\* C24: the parameters _execute_step sends hold every value extracted from
\* the user's query unchanged, in every step of the plan
C24_ExtractedParamsKept ==
    Executed =>
        \A i \in 1..Len(plan) :
            Sent(i) =>
                \A k \in DictKeys(plan[i].parameters) :
                    Extracted(i, k) =>
                        DictGet(dispatch[i].parameters, k) = DictGet(plan[i].parameters, k)
\* the tool of step i has no registered handler
NoHandler(i) == plan[i].tool_name \notin Range(tool_handlers)

\* C25: no _execute_step call raises; a step without a registered handler
\* has the result {status: error, tool_name}; after a step's error result the
\* steps of the later groups are skipped when the step is mandatory
C25_StepErrorsAreResults ==
    Executed =>
        /\ \A i \in 1..Len(plan) : task[i] # "raised"
        /\ \A i \in 1..Len(plan) :
              (NoHandler(i) /\ task[i] = "done") =>
                  /\ step_result[i].status = "error"
                  /\ step_result[i].tool_name = plan[i].tool_name
        /\ \A i, j \in 1..Len(plan) :
              (/\ task[i] = "done"
               /\ step_result[i].status = "error"
               /\ Mandatory(i)
               /\ plan[i].parallel_group < plan[j].parallel_group) => task[j] = "none"

\* step i failed: its _execute_step call returned a result without success
Fails(i) == task[i] = "done" /\ step_result[i].status # "success"

\* C26: when _execute_plan has returned and every step that failed is
\* optional, every step of the plan was dispatched
C26_OptionalFailureNeverHalts ==
    (exec_pc = "returned" /\ \A i \in 1..Len(plan) : Fails(i) => plan[i].optional) =>
        \A j \in 1..Len(plan) : Dispatched(j)

C26_Witness ==
    /\ exec_pc = "returned"
    /\ Len(Groups) > 1
    /\ \E i \in 1..Len(plan) :
          /\ Fails(i)
          /\ step_result[i].status = "error"
          /\ plan[i].parallel_group = Groups[1]
    /\ \A i \in 1..Len(plan) : Fails(i) => plan[i].optional
    /\ \A j \in 1..Len(plan) : Dispatched(j)
\* the steps that have status Running
Running == {i \in 1..Len(plan) : step_status[i] = "running"}

\* C27: the steps that are Running at the same time are of one
\* parallel_group, and more than one step is Running only with parallel
\* execution enabled and in a group of more than one step
C27_RunningInOneGroup ==
    Executed =>
        /\ \A i, j \in Running : plan[i].parallel_group = plan[j].parallel_group
        /\ Cardinality(Running) > 1 =>
              /\ enable_parallel_execution
              /\ \A i \in Running : Len(group_steps(plan, plan[i].parallel_group)) > 1

C27_Witness ==
    /\ Executed
    /\ Cardinality(Running) > 1
    /\ Len(Groups) > 1
\* the moves of StepStatus the claim allows
StatusMoves == { << "pending", "running" >>, << "running", "completed" >>,
                 << "running", "failed" >> }

\* C28: a step's status moves only from Pending to Running and from Running
\* to Completed or Failed, and every step with a recorded result has left
\* Pending
C28_StatusLifecycle ==
    /\ [][\A i \in DOMAIN step_status \cap DOMAIN step_status' :
             step_status'[i] # step_status[i] =>
                 << step_status[i], step_status'[i] >> \in StatusMoves]_vars
    /\ [](Executed => \A i \in 1..Len(plan) : HasResult(i) => step_status[i] # "pending")
\* C29: for a plan and an outcome of every tool call, _execute_plan with
\* parallel execution enabled and with it disabled dispatch the same steps
\* and give the same results list and the same success flag
C29_ParallelEqualsSequential ==
    plan_runs.stage = "returned" => plan_runs.parallel = plan_runs.sequential
\* C30: the plan create_plan returns has at most one step in every
\* parallel_group, so no group of it takes the concurrent branch of
\* _execute_plan
C30_OneStepPerGroup ==
    pc = "Planned" =>
        /\ \A i, j \in 1..Len(plan) :
              i # j => plan[i].parallel_group # plan[j].parallel_group
        /\ \A g \in 1..Len(sorted_groups(plan)) :
              ~use_gather(TRUE, group_steps(plan, sorted_groups(plan)[g]))

C30_Witness ==
    /\ pc = "Planned"
    /\ match_pattern(user_query.matches) = 0
    /\ Len(plan) >= 2
    /\ Len(sorted_groups(plan)) = Len(plan)

\* C31: every step of the plan create_plan returns names a tool of the
\* available_tools it was given
C31_StepsNameAvailableTools ==
    pc = "Planned" =>
        \A i \in 1..Len(plan) : plan[i].tool_name \in Range(tool_handlers)

\* the LLM intent the call got
LlmIntentOf(c) == llm_intent(c.outcome.answer, c.rule.entities)

C33_IntentConsistent ==
    classify_call.stage = "classified" =>
        /\ classify_call.result.name = classify_call.result.intent_type
        /\ classify_call.result.sub_intent \in
               {None} \cup sub_intents(classify_call.result.intent_type)
\* the row of the session of the last call
LastRow == store.pov[last_call.session]

\* C34: a first access takes the POV from the persisted row only when the
\* row's expires_at is strictly later than the current time; an expired or
\* missing row, or a read that fails, gives the default POV
C34_HydratedOnlyFromUnexpiredRow ==
    (last_call.op \in {"get_pov", "fresh_get_pov"} /\ last_call.read # "none") =>
        /\ (last_call.read = "failed" \/ ~LastRow.present
                \/ LastRow.expires_at <= last_call.at)
               => last_call.returned = POVState
        /\ last_call.returned # POVState
               => /\ LastRow.present /\ LastRow.expires_at > last_call.at
                  /\ last_call.returned = from_dict(LastRow.data)
        /\ last_call.op = "get_pov" => sessions[last_call.session].pov = last_call.returned

\* a first access at the very second a stored row expires
C34_Witness ==
    /\ last_call.op = "get_pov" /\ last_call.read = "ok"
    /\ LastRow.present /\ LastRow.expires_at = last_call.at /\ last_call.at > 0
    /\ LastRow.data # to_dict(POVState)
    /\ last_call.returned = POVState

\* a ContextMemory constructed later reads the row of a session that the
\* first one holds in memory, before the row expires
FreshReadInTime ==
    /\ last_call.op = "fresh_get_pov" /\ last_call.read = "ok"
    /\ sessions[last_call.session].exists
    /\ LastRow.present => LastRow.expires_at > last_call.at

\* the statement of C35 as written: whenever no save of the session has
\* failed, the fresh ContextMemory returns the last POV in memory
C35_RoundTripWheneverSavesSucceed ==
    (FreshReadInTime /\ save_log[last_call.session] # "failed") =>
        last_call.returned = sessions[last_call.session].pov

\* C35: after calls on a session that saved its POV at least once and whose
\* saves all succeeded, a fresh ContextMemory over the same store that reads
\* the session before the TTL elapses returns a POV equal in all ten fields
\* to the last POV in memory
C35_RoundTripAfterSave ==
    (FreshReadInTime /\ save_log[last_call.session] = "ok") =>
        \A f \in POVFields :
            last_call.returned[f] = sessions[last_call.session].pov[f]

\* a POV changed by a result and by set_pov is read back by a fresh
\* ContextMemory after half a TTL
C35_Witness ==
    /\ FreshReadInTime /\ save_log[last_call.session] = "ok"
    /\ last_call.at > 0
    /\ sessions[last_call.session].recent_results # << >>
    /\ last_call.returned["years"] = "FY26"
    /\ last_call.returned = sessions[last_call.session].pov


\* C36: under any interleaving of first accesses to one new session id,
\* get_or_create_session creates one ConversationMemory, hydrates it once,
\* hands the same object to every caller, and never replaces it
C36_OneMemoryPerSession ==
    first_access.stage = "running" =>
        /\ first_access.created <= 1
        /\ first_access.hydrated <= 1
        /\ first_access.former = {}
        /\ \A t \in Threads :
              first_access.got[t] # NoObject =>
                  /\ first_access.got[t] = first_access.in_sessions
                  /\ first_access.created = 1 /\ first_access.hydrated = 1

\* every thread has received the one object created, one of them from its
\* last call
C36_Witness ==
    /\ first_access.stage = "running"
    /\ \A t \in Threads : first_access.got[t] = 1
    /\ \E t \in Threads : first_access.calls[t] = MaxCalls
    /\ first_access.created = 1


\* the memory set_pov works on: the one in _sessions, or the one hydrated
\* by this call
MemoryBefore(s, read) ==
    IF sessions[s].exists THEN sessions[s]
    ELSE ConversationMemory(load_pov(store, s, read = "ok", now))

\* the fields of a memory other than its POV
OutsidePov(m) == [m EXCEPT !.pov = POVState]

\* what a set_pov(s, kwargs) step may change
SetPovFrame(s, kwargs) ==
    LET before == MemoryBefore(s, last_call'.read)
    IN  /\ \A o \in SessionIds \ {s} : sessions'[o] = sessions[o]
        /\ OutsidePov(sessions'[s]) = OutsidePov(before)
        /\ \A f \in POVFields :
              IF DictHas(kwargs, f)
              THEN sessions'[s].pov[f] = DictGet(kwargs, f)
              ELSE sessions'[s].pov[f] = before.pov[f]

\* C37: set_pov(session, fields) changes only the named POV fields of that
\* session; its other POV fields, its recent_queries, recent_results, focus
\* fields and last_tool_used, and the memory of every other session stay as
\* they were, and unknown field names change nothing
C37_SetPovChangesOnlyNamedFields ==
    [][\A kwargs \in FrameArgs :
          SetPov("default", kwargs) => SetPovFrame("default", kwargs)]_vars

\* set_pov has set the period and the account of a session that holds a
\* query, a result and focus fields, next to another session with a memory
C37_Witness ==
    /\ last_call.op = "set_pov"
    /\ LET m == sessions[last_call.session]
       IN  /\ m.pov["period"] = "Q1" /\ m.pov["account"] = "A100"
           /\ m.pov["entity"] = "E100"
           /\ m.recent_queries # << >> /\ m.recent_results # << >>
           /\ m.entity_focus = "E100" /\ m.account_focus = "A200"
           /\ m.last_tool_used = MemoryTool
    /\ \E o \in SessionIds \ {last_call.session} :
          sessions[o].exists /\ sessions[o].recent_queries # << >>


\* C38: under any interleaving of ensure_initialized calls, initialize_agent
\* never runs in two callers at once, is not invoked again once an invocation
\* has completed without raising, and no call returns normally before an
\* initialization has completed
C38_InitializedOnce ==
    initialization.stage = "running" =>
        /\ \A c, d \in Callers :
              (initialization.pc[c] = "initializing"
               /\ initialization.pc[d] = "initializing") => c = d
        /\ ~initialization.invoked_after_completion
        /\ initialization.completed <= 1
        /\ \A c \in Callers :
              initialization.pc[c] = "returned" => initialization.completed = 1

\* a caller returns after an initialization that raised for another caller
\* was followed by one that completed
C38_Witness ==
    /\ initialization.stage = "running"
    /\ initialization.invoked >= 2
    /\ initialization.completed = 1
    /\ \E c, d \in Callers :
          /\ c # d
          /\ initialization.pc[c] = "returned"
          /\ initialization.pc[d] = "raised"


\* C39: the orchestrator of get_orchestrator never dispatches the
\* agentic_query tool, whatever the query
C39_NeverDispatchesAgenticQuery ==
    \A i \in 1..Len(plan) :
        (i \in DOMAIN invocations /\ plan[i].tool_name = "agentic_query") =>
            /\ invocations[i] = 0
            /\ task[i] # "awaiting"

\* a query whose classification suggests agentic_query has been answered
\* after another tool was dispatched
C39_Witness ==
    /\ "agentic_query" \in Range(intent.suggested_tools)
    /\ "agentic_query" \notin Range(tool_handlers)
    /\ \E i \in 1..Len(plan) : i \in DOMAIN invocations /\ invocations[i] > 0
    /\ response.returned


\* C40: the hierarchy traversals of the metadata cache (the level
\* computation at load, get_ancestors, and the descendant walk of
\* get_leaves) return after finitely many steps for every stored parent
\* relation, one with a cycle included
C40_TraversalsTerminate ==
    traversal.stage = "running" ~> traversal.stage = "returned"

====
